---- MODULE Spec2Model ----
(***************************************************************************)
(* A model of the ray tracer: intervals, bounding boxes, meshes and their  *)
(* hit routines, the BVH, materials, the camera's radiance estimator and   *)
(* the program entry point.                                                *)
(*                                                                         *)
(* f32 values are modelled as exact rationals <<n, d>> in lowest terms     *)
(* with d > 0, extended by the IEEE-754 specials +inf = <<1, 0>>,          *)
(* -inf = <<-1, 0>> and NaN = <<0, 0>>.  Rounding is not modelled; every   *)
(* input the model enumerates is a value on which the f32 operations of    *)
(* the source are exact or whose rounding does not change a comparison.    *)
(***************************************************************************)
EXTENDS Integers, Sequences, FiniteSets, TLC

\* A let binding: Let(e, LAMBDA x : body) is body with x bound to e.
Let(value, Body(_)) == Body(value)

(***************************************************************************)
(* Extended rational arithmetic (the f32 operators of the source).         *)
(***************************************************************************)
Abs(x) == IF x < 0 THEN -x ELSE x

Sign(x) == IF x < 0 THEN -1 ELSE IF x > 0 THEN 1 ELSE 0

RECURSIVE Gcd(_, _)
Gcd(a, b) == IF b = 0 THEN a ELSE Gcd(b, a % b)

\* The rational n/d in canonical form; n/0 is a signed infinity, 0/0 is NaN.
Q(n, d) ==
    IF d = 0 THEN <<Sign(n), 0>>
    ELSE LET g == Gcd(Abs(n), Abs(d))
             s == Sign(d)
         IN  <<(s * n) \div g, (s * d) \div g>>

I(n) == <<n, 1>>

Zero == <<0, 1>>
One == <<1, 1>>
INFINITY == <<1, 0>>
NEG_INFINITY == <<-1, 0>>
NaN == <<0, 0>>

IsNaN(a) == a = NaN
IsInf(a) == a[2] = 0 /\ a[1] # 0
IsFinite(a) == a[2] # 0

QNeg(a) == <<-a[1], a[2]>>

QAdd(a, b) ==
    IF IsNaN(a) \/ IsNaN(b) THEN NaN
    ELSE IF IsInf(a) /\ IsInf(b) THEN (IF a = b THEN a ELSE NaN)
    ELSE IF IsInf(a) THEN a
    ELSE IF IsInf(b) THEN b
    ELSE LET g == Gcd(a[2], b[2])
         IN  Q(a[1] * (b[2] \div g) + b[1] * (a[2] \div g), (a[2] \div g) * b[2])

QSub(a, b) == QAdd(a, QNeg(b))

QMul(a, b) ==
    IF IsNaN(a) \/ IsNaN(b) THEN NaN
    ELSE IF IsInf(a) \/ IsInf(b) THEN <<Sign(a[1]) * Sign(b[1]), 0>>
    ELSE LET g1 == Gcd(Abs(a[1]), b[2])
             g2 == Gcd(Abs(b[1]), a[2])
         IN  Q((a[1] \div g1) * (b[1] \div g2), (a[2] \div g2) * (b[2] \div g1))

QDiv(a, b) ==
    IF IsNaN(a) \/ IsNaN(b) THEN NaN
    ELSE IF IsInf(a) /\ IsInf(b) THEN NaN
    ELSE IF IsInf(a) THEN <<a[1] * (IF b[1] < 0 THEN -1 ELSE 1), 0>>
    ELSE IF IsInf(b) THEN Zero
    ELSE IF b[1] = 0 THEN <<Sign(a[1]), 0>>
    ELSE QMul(a, <<Sign(b[1]) * b[2], Abs(b[1])>>)

\* IEEE comparisons: every comparison with NaN is false.
QLt(a, b) ==
    IF IsNaN(a) \/ IsNaN(b) THEN FALSE
    ELSE IF IsInf(a) THEN a[1] < 0 /\ b # a
    ELSE IF IsInf(b) THEN b[1] > 0
    ELSE LET g == Gcd(a[2], b[2])
         IN  a[1] * (b[2] \div g) < b[1] * (a[2] \div g)

QLe(a, b) == ~IsNaN(a) /\ ~IsNaN(b) /\ (a = b \/ QLt(a, b))
QGt(a, b) == QLt(b, a)
QGe(a, b) == QLe(b, a)

\* f32::min and f32::max return the other operand when one is NaN.
QMin(a, b) == IF IsNaN(a) THEN b ELSE IF IsNaN(b) THEN a ELSE IF QLt(b, a) THEN b ELSE a
QMax(a, b) == IF IsNaN(a) THEN b ELSE IF IsNaN(b) THEN a ELSE IF QLt(a, b) THEN b ELSE a

QAbs(a) == <<Abs(a[1]), a[2]>>

\* Integer square root, and the exact square root of a rational square.
RECURSIVE ISqrtBetween(_, _, _)
ISqrtBetween(n, lo, hi) ==
    IF hi - lo <= 1 THEN lo
    ELSE LET mid == (lo + hi) \div 2
         IN  IF mid * mid <= n THEN ISqrtBetween(n, mid, hi) ELSE ISqrtBetween(n, lo, mid)
ISqrt(n) == ISqrtBetween(n, 0, IF n < 46340 THEN n + 1 ELSE 46341)
IsSquare(a) == IsFinite(a) /\ a[1] >= 0 /\ ISqrt(a[1]) * ISqrt(a[1]) = a[1]
                  /\ ISqrt(a[2]) * ISqrt(a[2]) = a[2]
QSqrt(a) == <<ISqrt(a[1]), ISqrt(a[2])>>

(***************************************************************************)
(* Vec3 (bevy_math): triples of rationals.                                 *)
(***************************************************************************)
Vec3(x, y, z) == <<x, y, z>>
V(x, y, z) == <<I(x), I(y), I(z)>>
VZERO == V(0, 0, 0)
VX == V(1, 0, 0)
VY == V(0, 1, 0)
VZ == V(0, 0, 1)

VAdd(a, b) == <<QAdd(a[1], b[1]), QAdd(a[2], b[2]), QAdd(a[3], b[3])>>
VSub(a, b) == <<QSub(a[1], b[1]), QSub(a[2], b[2]), QSub(a[3], b[3])>>
VNeg(a) == <<QNeg(a[1]), QNeg(a[2]), QNeg(a[3])>>
VScale(a, k) == <<QMul(a[1], k), QMul(a[2], k), QMul(a[3], k)>>
VDivS(a, k) == <<QDiv(a[1], k), QDiv(a[2], k), QDiv(a[3], k)>>
VMul(a, b) == <<QMul(a[1], b[1]), QMul(a[2], b[2]), QMul(a[3], b[3])>>
Dot(a, b) == QAdd(QAdd(QMul(a[1], b[1]), QMul(a[2], b[2])), QMul(a[3], b[3]))
Cross(a, b) ==
    <<QSub(QMul(a[2], b[3]), QMul(a[3], b[2])),
      QSub(QMul(a[3], b[1]), QMul(a[1], b[3])),
      QSub(QMul(a[1], b[2]), QMul(a[2], b[1]))>>
LengthSquared(a) == Dot(a, a)
Length(a) == QSqrt(LengthSquared(a))
Normalize(a) == VDivS(a, Length(a))

(***************************************************************************)
(* Ray and Interval (lib.rs).                                              *)
(***************************************************************************)
Ray_new(origin, direction, time) ==
    [origin |-> origin, direction |-> direction, time |-> time]

Ray_get_point(ray, distance) == VAdd(ray.origin, VScale(ray.direction, distance))

Interval(s, e) == [start |-> s, end |-> e]

Interval_default == Interval(Zero, Zero)

Interval_UNIVERSE == Interval(NEG_INFINITY, INFINITY)

\* Range::contains: start <= value < end.
Interval_contains(iv, value) == QLe(iv.start, value) /\ QLt(value, iv.end)

Interval_expand(iv, delta) ==
    LET padding == QDiv(delta, I(2))
    IN  Interval(QSub(iv.start, padding), QAdd(iv.end, padding))

Interval_join(a, b) == Interval(QMin(a.start, b.start), QMax(a.end, b.end))

Interval_size(iv) == QSub(iv.end, iv.start)

Interval_add(iv, rhs) == Interval(QAdd(iv.start, rhs), QAdd(iv.end, rhs))

(***************************************************************************)
(* Aabb (mesh.rs).                                                         *)
(***************************************************************************)
Aabb(x, y, z) == [x |-> x, y |-> y, z |-> z]

\* #[derive(Default)]: the three intervals are Interval::default(), unpadded.
Aabb_default == Aabb(Interval_default, Interval_default, Interval_default)

\* impl Index<usize> for Aabb, on axes 0, 1, 2.
Aabb_index(box, n) == IF n = 0 THEN box.x ELSE IF n = 1 THEN box.y ELSE box.z

pad_to_minimus(iv) ==
    LET delta == Q(1, 10000)
    IN  IF QLt(Interval_size(iv), delta) THEN Interval_expand(iv, delta) ELSE iv

Aabb_new(x, y, z) == Aabb(pad_to_minimus(x), pad_to_minimus(y), pad_to_minimus(z))

Aabb_from_extremes(a, b) ==
    Aabb_new(IF QLe(a[1], b[1]) THEN Interval(a[1], b[1]) ELSE Interval(b[1], a[1]),
             IF QLe(a[2], b[2]) THEN Interval(a[2], b[2]) ELSE Interval(b[2], a[2]),
             IF QLe(a[3], b[3]) THEN Interval(a[3], b[3]) ELSE Interval(b[3], a[3]))

Aabb_merge(a, b) ==
    Aabb_new(Interval_join(a.x, b.x), Interval_join(a.y, b.y), Interval_join(a.z, b.z))

\* The slab loop without the ordering of t0 and t1.
Aabb_hit_slab_unordered(box, ray, ray_t, n) ==
    Let(Aabb_index(box, n), LAMBDA iv :
    Let(QDiv(One, ray.direction[n + 1]), LAMBDA adinv :
    Interval(QMax(ray_t.start, QMul(QSub(iv.start, ray.origin[n + 1]), adinv)),
             QMin(ray_t.end, QMul(QSub(iv.end, ray.origin[n + 1]), adinv)))))

\* One iteration of the slab loop of Aabb::hit on axis n: the narrowed ray_t.
Aabb_hit_slab(box, ray, ray_t, n) ==
    Let(Aabb_index(box, n), LAMBDA iv :
    Let(QDiv(One, ray.direction[n + 1]), LAMBDA adinv :
    Let(QMul(QSub(iv.start, ray.origin[n + 1]), adinv), LAMBDA a0 :
    Let(QMul(QSub(iv.end, ray.origin[n + 1]), adinv), LAMBDA a1 :
    Let(IF QLt(a0, a1) THEN a0 ELSE a1, LAMBDA t0 :
    Let(IF QLt(a0, a1) THEN a1 ELSE a0, LAMBDA t1 :
    Interval(QMax(ray_t.start, t0), QMin(ray_t.end, t1))))))))

Aabb_hit(box, ray, ray_t) ==
    Let(Aabb_hit_slab(box, ray, ray_t, 0), LAMBDA r0 :
    IF QLe(r0.end, r0.start) THEN FALSE
    ELSE Let(Aabb_hit_slab(box, ray, r0, 1), LAMBDA r1 :
         IF QLe(r1.end, r1.start) THEN FALSE
         ELSE Let(Aabb_hit_slab(box, ray, r1, 2), LAMBDA r2 :
              IF QLe(r2.end, r2.start) THEN FALSE
              ELSE TRUE)))

\* longest_axis with >= in place of >: the first of several longest axes.
Aabb_longest_axis_first(box) ==
    LET x == QSub(box.x.end, box.x.start)
        y == QSub(box.y.end, box.y.start)
        z == QSub(box.z.end, box.z.start)
    IN  IF QGe(x, y) /\ QGe(x, z) THEN 0 ELSE IF QGe(y, z) THEN 1 ELSE 2

Aabb_longest_axis(box) ==
    LET x == QSub(box.x.end, box.x.start)
        y == QSub(box.y.end, box.y.start)
        z == QSub(box.z.end, box.z.start)
    IN  IF QGt(x, y) /\ QGt(x, z) THEN 0 ELSE IF QGt(y, z) THEN 1 ELSE 2

\* impl Add<Vec3> for &Aabb: the shifted box is built field by field, not by Aabb::new.
Aabb_add(box, rhs) ==
    Aabb(Interval_add(box.x, rhs[1]), Interval_add(box.y, rhs[2]), Interval_add(box.z, rhs[3]))

(***************************************************************************)
(* Materials (material.rs) as data; textures are solid colours.            *)
(***************************************************************************)
Lambertian(albedo) == [kind |-> "Lambertian", albedo |-> albedo]
DiffuseLight(emit) == [kind |-> "DiffuseLight", albedo |-> emit]
Isotropic(albedo) == [kind |-> "Isotropic", albedo |-> albedo]

(***************************************************************************)
(* Hit (mesh.rs).  None is Option::None.                                   *)
(***************************************************************************)
None == [some |-> FALSE]

Hit_new(ray, distance, normal, material, uv) ==
    Let(QLt(Dot(ray.direction, normal), Zero), LAMBDA front_face :
    [some |-> TRUE,
     point |-> Ray_get_point(ray, distance),
     normal |-> IF front_face THEN normal ELSE VNeg(normal),
     distance |-> distance,
     front_face |-> TRUE,
     material |-> material,
     uv |-> uv])

(***************************************************************************)
(* Sphere.  A failed assert! is the value Panic.                           *)
(***************************************************************************)
Panic == [kind |-> "Panic"]

\* Sphere::stationary with the assertion radius > 0 in place of radius >= 0.
Sphere_stationary_strict(center, radius, material) ==
    IF ~QGt(radius, Zero) THEN Panic
    ELSE Let(Vec3(radius, radius, radius), LAMBDA rvec :
         [kind |-> "Sphere",
          initial_center |-> center,
          center_delta |-> VZERO,
          radius |-> radius,
          material |-> material,
          bbox |-> Aabb_from_extremes(VSub(center, rvec), VAdd(center, rvec))])

Sphere_stationary(center, radius, material) ==
    IF ~QGe(radius, Zero) THEN Panic
    ELSE Let(Vec3(radius, radius, radius), LAMBDA rvec :
         [kind |-> "Sphere",
          initial_center |-> center,
          center_delta |-> VZERO,
          radius |-> radius,
          material |-> material,
          bbox |-> Aabb_from_extremes(VSub(center, rvec), VAdd(center, rvec))])

Sphere_moving(from, to, radius, material) ==
    IF ~QGe(radius, Zero) THEN Panic
    ELSE Let(Vec3(radius, radius, radius), LAMBDA rvec :
         Let(Aabb_from_extremes(VSub(from, rvec), VAdd(from, rvec)), LAMBDA box1 :
         Let(Aabb_from_extremes(VSub(to, rvec), VAdd(to, rvec)), LAMBDA box2 :
         [kind |-> "Sphere",
          initial_center |-> from,
          center_delta |-> VSub(to, from),
          radius |-> radius,
          material |-> material,
          bbox |-> Aabb_merge(box1, box2)])))

\* The center without the motion: the initial center at every time.
Sphere_center_initial(s, time) == s.initial_center

Sphere_center(s, time) == VAdd(s.initial_center, VScale(s.center_delta, time))

\* Sphere::uv takes acos and atan2 of the normal's components; the model keeps
\* their arguments and does not evaluate the transcendental functions.
Sphere_uv(point) ==
    [map |-> "sphere", a |-> QNeg(point[2]), b |-> QNeg(point[3]), c |-> point[1]]

Sphere_discriminant(s, ray) ==
    Let(VSub(Sphere_center(s, ray.time), ray.origin), LAMBDA oc :
    Let(LengthSquared(ray.direction), LAMBDA a :
    Let(Dot(ray.direction, oc), LAMBDA h :
    Let(QSub(LengthSquared(oc), QMul(s.radius, s.radius)), LAMBDA c :
    QSub(QMul(h, h), QMul(a, c))))))

Sphere_hit(s, ray, ray_t) ==
    Let(Sphere_center(s, ray.time), LAMBDA center :
    Let(VSub(center, ray.origin), LAMBDA oc :
    Let(LengthSquared(ray.direction), LAMBDA a :
    Let(Dot(ray.direction, oc), LAMBDA h :
    Let(Sphere_discriminant(s, ray), LAMBDA discriminant :
    IF QLt(discriminant, Zero) THEN None
    ELSE Let(QSqrt(discriminant), LAMBDA sqrtd :
         Let(QDiv(QSub(h, sqrtd), a), LAMBDA root1 :
         Let(QDiv(QAdd(h, sqrtd), a), LAMBDA root2 :
         IF ~Interval_contains(ray_t, root1) /\ ~Interval_contains(ray_t, root2) THEN None
         ELSE Let(IF Interval_contains(ray_t, root1) THEN root1 ELSE root2, LAMBDA root :
              Let(Ray_get_point(ray, root), LAMBDA point :
              Let(VDivS(VSub(point, center), s.radius), LAMBDA normal :
              Hit_new(ray, root, normal, s.material, Sphere_uv(normal)))))))))))))

(***************************************************************************)
(* Quad.                                                                   *)
(***************************************************************************)
Quad_new(translation, u, v, material) ==
    Let(Aabb_from_extremes(translation, VAdd(VAdd(translation, u), v)), LAMBDA bbox_diagonal1 :
    Let(Aabb_from_extremes(VAdd(translation, u), VAdd(translation, v)), LAMBDA bbox_diagonal2 :
    Let(Cross(u, v), LAMBDA n :
    Let(Normalize(n), LAMBDA normal :
    [kind |-> "Quad",
     translation |-> translation,
     u |-> u,
     v |-> v,
     material |-> material,
     bbox |-> Aabb_merge(bbox_diagonal1, bbox_diagonal2),
     normal |-> normal,
     d |-> Dot(normal, translation),
     w |-> VDivS(n, Dot(n, n))]))))

\* Quad::uv: Some(a, b) when both lie in the unit interval [0, 1).
Quad_uv(a, b) ==
    LET unit_interval == Interval(Zero, One)
    IN  IF Interval_contains(unit_interval, a) /\ Interval_contains(unit_interval, b)
        THEN [some |-> TRUE, uv |-> [map |-> "plane", a |-> a, b |-> b, c |-> Zero]]
        ELSE None

Quad_hit(q, ray, ray_t) ==
    Let(Dot(q.normal, ray.direction), LAMBDA denom :
    IF QLt(QAbs(denom), Q(1, 100000000)) THEN None
    ELSE Let(QDiv(QSub(q.d, Dot(q.normal, ray.origin)), denom), LAMBDA t :
         IF ~Interval_contains(ray_t, t) THEN None
         ELSE Let(Ray_get_point(ray, t), LAMBDA intersection :
              Let(VSub(intersection, q.translation), LAMBDA planar_hitpt_vec :
              Let(Dot(q.w, Cross(planar_hitpt_vec, q.v)), LAMBDA alpha :
              Let(Dot(q.w, Cross(q.u, planar_hitpt_vec)), LAMBDA beta :
              Let(Quad_uv(alpha, beta), LAMBDA uv :
              IF ~uv.some THEN None
              ELSE Hit_new(ray, t, q.normal, q.material, uv.uv))))))))

(***************************************************************************)
(* World, Cube, Translate, RotateY, Bvh, ConstantMedium: construction.     *)
(***************************************************************************)
RECURSIVE bounding_box(_)
bounding_box(mesh) ==
    IF mesh.kind = "Cube" THEN mesh.world.bbox
    ELSE IF mesh.kind = "ConstantMedium" THEN bounding_box(mesh.boundary)
    ELSE mesh.bbox

World_new == [kind |-> "World", meshes |-> <<>>, bbox |-> Aabb_default]

World_push(world, mesh) ==
    [world EXCEPT !.bbox = Aabb_merge(world.bbox, bounding_box(mesh)),
                  !.meshes = Append(world.meshes, mesh)]

\* The six world.push(Quad::new(..)) calls of Cube::new, in source order:
\* the arguments of each Quad::new.
Cube_faces(min, max, dx, dy, dz) ==
    <<<<Vec3(min[1], min[2], max[3]), dx, dy>>,
      <<Vec3(max[1], min[2], max[3]), VNeg(dz), dy>>,
      <<Vec3(max[1], max[2], min[3]), VNeg(dx), VNeg(dy)>>,
      <<Vec3(min[1], min[2], min[3]), dz, dy>>,
      <<Vec3(min[1], max[2], max[3]), dx, VNeg(dz)>>,
      <<Vec3(min[1], min[2], min[3]), dx, dz>>>>

RECURSIVE World_pushed(_, _, _)
\* world after world.push(quads[i]) for i = n + 1 .. Len(quads), in order.
World_pushed(world, quads, n) ==
    IF n >= Len(quads) THEN world
    ELSE World_pushed(World_push(world, quads[n + 1]), quads, n + 1)

Cube_new(a, b, material) ==
    Let(Vec3(QMin(a[1], b[1]), QMin(a[2], b[2]), QMin(a[3], b[3])), LAMBDA min :
    Let(Vec3(QMax(a[1], b[1]), QMax(a[2], b[2]), QMax(a[3], b[3])), LAMBDA max :
    Let(VScale(VX, QSub(max[1], min[1])), LAMBDA dx :
    Let(VScale(VY, QSub(max[2], min[2])), LAMBDA dy :
    Let(VScale(VZ, QSub(max[3], min[3])), LAMBDA dz :
    Let(Cube_faces(min, max, dx, dy, dz), LAMBDA faces :
    [kind |-> "Cube",
     world |-> World_pushed(World_new,
                            [i \in 1..6 |-> Quad_new(faces[i][1], faces[i][2], faces[i][3],
                                                     material)],
                            0)]))))))

Translate_new(object, offset) ==
    [kind |-> "Translate",
     bbox |-> Aabb_add(bounding_box(object), offset),
     offset |-> offset,
     object |-> object]

\* sin and cos of an angle in degrees, for the quarter turns, where both are
\* rational (the f32 results differ from these by rounding only).
SinDeg(angle) ==
    LET a == angle % 360
    IN  IF a = 90 THEN I(1) ELSE IF a = 270 THEN I(-1) ELSE Zero

CosDeg(angle) ==
    LET a == angle % 360
    IN  IF a = 0 THEN I(1) ELSE IF a = 180 THEN I(-1) ELSE Zero

\* The corner (i, j, k) of bbox rotated about Y, as the loop body of RotateY::new.
RotateY_corner(bbox, sin_theta, cos_theta, i, j, k) ==
    Let(QAdd(QMul(I(i), bbox.x.end), QMul(I(1 - i), bbox.x.start)), LAMBDA x :
    Let(QAdd(QMul(I(j), bbox.y.end), QMul(I(1 - j), bbox.y.start)), LAMBDA y :
    Let(QAdd(QMul(I(k), bbox.z.end), QMul(I(1 - k), bbox.z.start)), LAMBDA z :
    Let(QAdd(QMul(cos_theta, x), QMul(sin_theta, z)), LAMBDA newx :
    Let(QAdd(QMul(QNeg(sin_theta), x), QMul(cos_theta, z)), LAMBDA newz :
    Vec3(newx, y, newz))))))

RECURSIVE RotateY_extent(_, _, _, _, _)
\* min and max over the corners c..7, folded as the triple loop does.
RotateY_extent(bbox, sin_theta, cos_theta, c, acc) ==
    IF c > 7 THEN acc
    ELSE Let(RotateY_corner(bbox, sin_theta, cos_theta, c \div 4, (c \div 2) % 2, c % 2),
             LAMBDA t :
         RotateY_extent(bbox, sin_theta, cos_theta, c + 1,
             <<Vec3(QMin(acc[1][1], t[1]), QMin(acc[1][2], t[2]), QMin(acc[1][3], t[3])),
               Vec3(QMax(acc[2][1], t[1]), QMax(acc[2][2], t[2]), QMax(acc[2][3], t[3]))>>))

RotateY_new(object, angle) ==
    Let(SinDeg(angle), LAMBDA sin_theta :
    Let(CosDeg(angle), LAMBDA cos_theta :
    Let(RotateY_extent(bounding_box(object), sin_theta, cos_theta, 0,
                       <<Vec3(INFINITY, INFINITY, INFINITY),
                         Vec3(NEG_INFINITY, NEG_INFINITY, NEG_INFINITY)>>), LAMBDA ext :
    [kind |-> "RotateY",
     object |-> object,
     sin_theta |-> sin_theta,
     cos_theta |-> cos_theta,
     bbox |-> Aabb_from_extremes(ext[1], ext[2])])))

\* ConstantMedium::new storing the density as it is given.
ConstantMedium_new_plain(boundary, density, albedo) ==
    [kind |-> "ConstantMedium",
     boundary |-> boundary,
     density |-> density,
     material |-> Isotropic(albedo)]

\* ConstantMedium::new stores -1/density in the density field.
ConstantMedium_new(boundary, density, albedo) ==
    [kind |-> "ConstantMedium",
     boundary |-> boundary,
     density |-> QDiv(I(-1), density),
     material |-> Isotropic(albedo)]

\* value.sort_by(total_cmp of the boxes' starts on the axis): a stable sort.
RECURSIVE SortInsert(_, _, _)
SortInsert(sorted, m, axis) ==
    IF sorted = <<>> THEN <<m>>
    ELSE IF QLt(Aabb_index(bounding_box(m), axis).start,
                Aabb_index(bounding_box(Head(sorted)), axis).start)
         THEN <<m>> \o sorted
         ELSE <<Head(sorted)>> \o SortInsert(Tail(sorted), m, axis)

RECURSIVE SortByStart(_, _)
SortByStart(value, axis) ==
    IF value = <<>> THEN <<>>
    ELSE LET n == Len(value)
         IN  SortInsert(SortByStart(SubSeq(value, 1, n - 1), axis), value[n], axis)

RECURSIVE Bvh_bbox(_, _)
\* value.iter().fold(Aabb::default(), |acc, mesh| acc.merge(mesh.bounding_box()))
Bvh_bbox(value, n) ==
    IF n = 0 THEN Aabb_default
    ELSE Aabb_merge(Bvh_bbox(value, n - 1), bounding_box(value[n]))

RECURSIVE Bvh_from(_)
\* An empty list takes the last branch with mid = 0 and calls Bvh::from on the
\* empty prefix again: the recursion never returns (the value Diverges).
Bvh_from(value) ==
    IF Len(value) = 0 THEN [kind |-> "Diverges"]
    ELSE Let(Bvh_bbox(value, Len(value)), LAMBDA bbox :
         IF Len(value) = 1
         THEN [kind |-> "Bvh", left |-> value[1], right |-> value[1], bbox |-> bbox]
         ELSE IF Len(value) = 2
         THEN [kind |-> "Bvh", left |-> value[1], right |-> value[2], bbox |-> bbox]
         ELSE Let(SortByStart(value, Aabb_longest_axis(bbox)), LAMBDA sorted :
              Let(Len(value) \div 2, LAMBDA mid :
              [kind |-> "Bvh",
               left |-> Bvh_from(SubSeq(sorted, 1, mid)),
               right |-> Bvh_from(SubSeq(sorted, mid + 1, Len(value))),
               bbox |-> bbox])))

(***************************************************************************)
(* Mesh::hit.  rand::random::<f32>().ln() is drawn from the stream rs      *)
(* = [vals, k]: the k-th draw of a query is vals[k mod Len(vals)].  Every  *)
(* hit routine returns [hit, rs]: its Option<Hit> and the stream after it. *)
(***************************************************************************)
Draw(rs) == rs.vals[(rs.k % Len(rs.vals)) + 1]
Drawn(rs) == [rs EXCEPT !.k = rs.k + 1]

Translate_ray(m, ray) == Ray_new(VSub(ray.origin, m.offset), ray.direction, ray.time)

Translate_back(m, hit) == [hit EXCEPT !.point = VAdd(hit.point, m.offset)]

\* The rotation RotateY::hit applies to the ray's origin and direction: both
\* new components are computed from the components of the caller's ray.
RotateY_to_object(m, v) ==
    Vec3(QSub(QMul(m.cos_theta, v[1]), QMul(m.sin_theta, v[3])),
         v[2],
         QAdd(QMul(m.sin_theta, v[1]), QMul(m.cos_theta, v[3])))

RotateY_ray(m, ray) ==
    Ray_new(RotateY_to_object(m, ray.origin), RotateY_to_object(m, ray.direction), ray.time)

\* The in-place update of RotateY::hit on a vector: component 0 is overwritten
\* first and the new value is read when component 2 is computed.
RotateY_back_vec(m, v) ==
    Let(QSub(QMul(m.cos_theta, v[1]), QMul(m.sin_theta, v[3])), LAMBDA v0 :
    Vec3(v0, v[2], QAdd(QMul(m.sin_theta, v0), QMul(m.cos_theta, v[3]))))

RotateY_back(m, hit) ==
    [hit EXCEPT !.point = RotateY_back_vec(m, hit.point),
                !.normal = RotateY_back_vec(m, hit.normal)]

RECURSIVE Mesh_hit(_, _, _, _)
RECURSIVE World_hit_loop(_, _, _, _, _, _)

\* The for loop of World::hit from member i on, with current_hit so far.
World_hit_loop(world, ray, ray_t, rs, i, current_hit) ==
    IF i > Len(world.meshes) THEN [hit |-> current_hit, rs |-> rs]
    ELSE Let(IF current_hit.some THEN current_hit.distance ELSE ray_t.end, LAMBDA tmax :
         Let(Mesh_hit(world.meshes[i], ray, Interval(ray_t.start, tmax), rs), LAMBDA r :
         World_hit_loop(world, ray, ray_t, r.rs, i + 1,
                        IF r.hit.some THEN r.hit ELSE current_hit)))

World_hit(world, ray, ray_t, rs) == World_hit_loop(world, ray, ray_t, rs, 1, None)

Bvh_hit(bvh, ray, ray_t, rs) ==
    IF Aabb_hit(bvh.bbox, ray, ray_t)
    THEN Let(Mesh_hit(bvh.left, ray, ray_t, rs), LAMBDA l :
         IF l.hit.some
         THEN Let(Mesh_hit(bvh.right, ray, Interval(ray_t.start, l.hit.distance), l.rs),
                  LAMBDA r :
              [hit |-> IF r.hit.some THEN r.hit ELSE l.hit, rs |-> r.rs])
         ELSE Mesh_hit(bvh.right, ray, ray_t, l.rs))
    ELSE [hit |-> None, rs |-> rs]

\* The tail of ConstantMedium::hit without the raising of a negative entry
\* distance to 0.
ConstantMedium_inside_unraised(m, ray, ray_t, d1, d2, rs) ==
    IF QGe(d1, d2) THEN [hit |-> None, rs |-> rs]
    ELSE Let(Length(ray.direction), LAMBDA ray_length :
         Let(QMul(m.density, Draw(rs)), LAMBDA hit_distance :
         IF QGt(hit_distance, QMul(QSub(d2, d1), ray_length))
         THEN [hit |-> None, rs |-> Drawn(rs)]
         ELSE Let(QAdd(d1, QDiv(hit_distance, ray_length)), LAMBDA distance :
              [hit |-> [some |-> TRUE,
                        point |-> Ray_get_point(ray, distance),
                        distance |-> distance,
                        normal |-> VX,
                        front_face |-> TRUE,
                        material |-> m.material,
                        uv |-> [map |-> "plane", a |-> Zero, b |-> Zero, c |-> Zero]],
               rs |-> Drawn(rs)])))

\* The tail of ConstantMedium::hit, from the clamping of the two boundary
\* distances d1 and d2 on; rs is the stream after the boundary queries.
ConstantMedium_inside(m, ray, ray_t, d1, d2, rs) ==
    IF QGe(d1, d2) THEN [hit |-> None, rs |-> rs]
    ELSE Let(IF QLt(d1, Zero) THEN Zero ELSE d1, LAMBDA e1 :
         Let(Length(ray.direction), LAMBDA ray_length :
         Let(QMul(QSub(d2, e1), ray_length), LAMBDA distance_inside_boundary :
         Let(QMul(m.density, Draw(rs)), LAMBDA hit_distance :
         IF QGt(hit_distance, distance_inside_boundary)
         THEN [hit |-> None, rs |-> Drawn(rs)]
         ELSE Let(QAdd(e1, QDiv(hit_distance, ray_length)), LAMBDA distance :
              [hit |-> [some |-> TRUE,
                        point |-> Ray_get_point(ray, distance),
                        distance |-> distance,
                        normal |-> VX,
                        front_face |-> TRUE,
                        material |-> m.material,
                        uv |-> [map |-> "plane", a |-> Zero, b |-> Zero, c |-> Zero]],
               rs |-> Drawn(rs)])))))

ConstantMedium_hit(m, ray, ray_t, rs) ==
    Let(Mesh_hit(m.boundary, ray, Interval_UNIVERSE, rs), LAMBDA r1 :
    IF ~r1.hit.some THEN [hit |-> None, rs |-> r1.rs]
    ELSE Let(Mesh_hit(m.boundary, ray,
                      Interval(QAdd(r1.hit.distance, Q(1, 10000)), INFINITY), r1.rs),
             LAMBDA r2 :
         IF ~r2.hit.some THEN [hit |-> None, rs |-> r2.rs]
         ELSE ConstantMedium_inside(m, ray, ray_t,
                  IF QLt(r1.hit.distance, ray_t.start) THEN ray_t.start ELSE r1.hit.distance,
                  IF QGt(r2.hit.distance, ray_t.end) THEN ray_t.end ELSE r2.hit.distance,
                  r2.rs)))

Translate_hit(m, ray, ray_t, rs) ==
    Let(Mesh_hit(m.object, Translate_ray(m, ray), ray_t, rs), LAMBDA r :
    IF r.hit.some THEN [hit |-> Translate_back(m, r.hit), rs |-> r.rs] ELSE r)

RotateY_hit(m, ray, ray_t, rs) ==
    Let(Mesh_hit(m.object, RotateY_ray(m, ray), ray_t, rs), LAMBDA r :
    IF r.hit.some THEN [hit |-> RotateY_back(m, r.hit), rs |-> r.rs] ELSE r)

Mesh_hit(mesh, ray, ray_t, rs) ==
    CASE mesh.kind = "Sphere" -> [hit |-> Sphere_hit(mesh, ray, ray_t), rs |-> rs]
      [] mesh.kind = "Quad" -> [hit |-> Quad_hit(mesh, ray, ray_t), rs |-> rs]
      [] mesh.kind = "Cube" -> World_hit(mesh.world, ray, ray_t, rs)
      [] mesh.kind = "World" -> World_hit(mesh, ray, ray_t, rs)
      [] mesh.kind = "Bvh" -> Bvh_hit(mesh, ray, ray_t, rs)
      [] mesh.kind = "Translate" -> Translate_hit(mesh, ray, ray_t, rs)
      [] mesh.kind = "RotateY" -> RotateY_hit(mesh, ray, ray_t, rs)
      [] mesh.kind = "ConstantMedium" -> ConstantMedium_hit(mesh, ray, ray_t, rs)

\* The queries whose square roots are exact over the rationals: the sphere
\* discriminants met along the way are negative or squares, and a medium sees
\* a ray of rational length.
RECURSIVE ExactQuery(_, _)
ExactQuery(mesh, ray) ==
    CASE mesh.kind = "Sphere" ->
            Let(Sphere_discriminant(mesh, ray), LAMBDA disc :
                QLt(disc, Zero) \/ IsSquare(disc))
      [] mesh.kind = "Quad" -> TRUE
      [] mesh.kind = "Cube" -> TRUE
      [] mesh.kind = "World" ->
            \A i \in 1..Len(mesh.meshes) : ExactQuery(mesh.meshes[i], ray)
      [] mesh.kind = "Bvh" -> ExactQuery(mesh.left, ray) /\ ExactQuery(mesh.right, ray)
      [] mesh.kind = "Translate" -> ExactQuery(mesh.object, Translate_ray(mesh, ray))
      [] mesh.kind = "RotateY" -> ExactQuery(mesh.object, RotateY_ray(mesh, ray))
      [] mesh.kind = "ConstantMedium" ->
            IsSquare(LengthSquared(ray.direction)) /\ ExactQuery(mesh.boundary, ray)

(***************************************************************************)
(* State.                                                                  *)
(*   Scene construction and hit queries: world, bvh, built, phase, query,  *)
(*   worldHit, bvhHit.                                                     *)
(***************************************************************************)
VARIABLES
    world,      \* the World the scene builder pushes into
    bvh,        \* Bvh::from(&world), or NoBvh before it is built
    request,    \* the last constructor call: its name and radius argument
    built,      \* the value of the last constructor call (a mesh or Panic)
    phase,      \* "build", "frozen" (the Bvh is built), "panicked"
    query,      \* the last hit query [ray, ray_t, rs], or NoQuery
    worldHit,   \* World::hit's answer to the last query
    bvhHit,     \* Bvh::hit's answer to the last query
    boxes,      \* Aabb values held by a client of the public Aabb API
    config,     \* the CameraConfig handed to Camera::new
    camera,     \* the Camera built from config, or NoCamera
    scene,      \* the mesh handed to Camera::render
    cphase,     \* "config", "ready", "sampling", "tracing", "done"
    cursor,     \* render's loop position [x, y, s]
    color,      \* render's accumulator for the current pixel
    path,       \* the ray_color activation: [ray, depth, stack, queries]
    frames,     \* the ray_color calls of the last finished sample, outermost first
    output,     \* the lines render has written so far, on both streams, in order
    pc,         \* main's position
    builder,    \* the scene builder main calls
    image,      \* whether images/earthmap.jpg can be opened
    effects,    \* what main has done so far
    result,     \* main's return value, or "running"
    call        \* one call of a function of the library: its name, arguments, value

meshVars == <<world, bvh, request, built, phase, query, worldHit, bvhHit>>

aabbVars == <<boxes>>

cameraVars == <<config, camera, scene, cphase, cursor, color, path, frames, output>>

mainVars == <<pc, builder, image, effects, result>>

callVars == <<call>>

vars == <<meshVars, aabbVars, cameraVars, mainVars, callVars>>

NoBvh == [kind |-> "NoBvh"]
NoQuery == [asked |-> FALSE]
NoMesh == [kind |-> "NoMesh"]
NoRequest == [ctor |-> "none", radius |-> Zero]
NoCall == [fn |-> "none"]

(***************************************************************************)
(* Bounds and input sets of the scene model.                               *)
(***************************************************************************)
MaxMeshes == 3

Gray == Lambertian(Vec3(Q(1, 2), Q(1, 2), Q(1, 2)))
Light == DiffuseLight(V(4, 4, 4))

Radii == {I(-1), Zero, I(1)}
MovingRadii == {I(-1), I(1)}
Centers == {V(0, 0, -1)}
MovingEnds == {<<V(0, 0, -3), V(0, 2, -3)>>}
QuadShapes == {<<V(0, 0, 0), V(1, 0, 0), V(0, 1, 0)>>,
               <<V(-1, -1, -2), V(2, 0, 0), V(0, 2, 0)>>}
TransformedShapes == {<<V(-1, -1, -2), V(2, 0, 0), V(0, 2, 0)>>}
CubeCorners == {<<V(2, -1, -1), V(4, 1, 1)>>}
Angles == {0, 90}
Offsets == {V(1, 0, 0)}
Densities == {I(1)}

Rays == {Ray_new(V(-1, 1, 1), V(1, -1, -1), Zero),
         Ray_new(Vec3(Q(3, 5), Zero, I(5)), V(0, 0, -1), Zero),
         Ray_new(Vec3(Q(3, 5), Zero, I(5)), V(0, 0, -1), One),
         Ray_new(Vec3(I(-5), Q(3, 5), I(-1)), V(1, 0, 0), Zero),
         Ray_new(Vec3(I(-5), Zero, Zero), V(1, 0, 0), Zero),
         Ray_new(Vec3(I(5), Q(3, 5), I(-1)), V(-2, 0, 0), One)}
QueryIntervals == {Interval(Q(1, 1000), INFINITY), Interval(Zero, I(5))}
DrawStreams == {[vals |-> <<Q(-1, 2), I(-3)>>, k |-> 0], [vals |-> <<I(-3), Q(-1, 2)>>, k |-> 0]}

(***************************************************************************)
(* Scene construction (the scene builders of main.rs) and queries.         *)
(***************************************************************************)
MeshInit ==
    /\ world = World_new
    /\ bvh = NoBvh
    /\ request = NoRequest
    /\ built = NoMesh
    /\ phase = "build"
    /\ query = NoQuery
    /\ worldHit = None
    /\ bvhHit = None

\* world.push(<constructor call>): a panicking constructor aborts the program.
Push(ctor, radius, mesh) ==
    /\ phase = "build"
    /\ Len(world.meshes) < MaxMeshes
    /\ request' = [ctor |-> ctor, radius |-> radius]
    /\ built' = mesh
    /\ IF mesh = Panic
       THEN phase' = "panicked" /\ world' = world
       ELSE phase' = phase /\ world' = World_push(world, mesh)
    /\ UNCHANGED <<bvh, query, worldHit, bvhHit>>
    /\ UNCHANGED <<aabbVars, cameraVars, mainVars, callVars>>

PushSphereStationary ==
    /\ phase = "build"
    /\ \E c \in Centers, r \in Radii : Push("Sphere::stationary", r, Sphere_stationary(c, r, Gray))

PushSphereMoving ==
    /\ phase = "build"
    /\ \E e \in MovingEnds, r \in MovingRadii : Push("Sphere::moving", r, Sphere_moving(e[1], e[2], r, Gray))

PushQuad ==
    /\ phase = "build"
    /\ \E q \in QuadShapes : Push("Quad::new", Zero, Quad_new(q[1], q[2], q[3], Light))

PushCube ==
    /\ phase = "build"
    /\ \E c \in CubeCorners : Push("Cube::new", Zero, Cube_new(c[1], c[2], Gray))

PushTransformed ==
    /\ phase = "build"
    /\ \E q \in TransformedShapes, a \in Angles, off \in Offsets :
        Push("Translate::new", Zero,
             Translate_new(RotateY_new(Quad_new(q[1], q[2], q[3], Gray), a), off))

PushMedium ==
    /\ phase = "build"
    /\ \E c \in Centers, d \in Densities :
        Push("ConstantMedium::new", Zero,
             ConstantMedium_new(Sphere_stationary(c, I(1), Gray), d, V(1, 1, 1)))

\* let bvh_world = Bvh::from(&world);
BuildBvh ==
    /\ phase = "build"
    /\ Len(world.meshes) >= 1
    /\ bvh' = Bvh_from(world.meshes)
    /\ phase' = "frozen"
    /\ UNCHANGED <<world, request, built, query, worldHit, bvhHit>>
    /\ UNCHANGED <<aabbVars, cameraVars, mainVars, callVars>>

\* One query answered by the flat World and by the Bvh over the same meshes.
HitQuery ==
    /\ phase = "frozen"
    /\ ~query.asked
    /\ \E ray \in Rays, ray_t \in QueryIntervals, rs \in DrawStreams :
        /\ ExactQuery(world, ray)
        /\ query' = [asked |-> TRUE, ray |-> ray, ray_t |-> ray_t, rs |-> rs]
        /\ worldHit' = Mesh_hit(world, ray, ray_t, rs).hit
        /\ bvhHit' = Mesh_hit(bvh, ray, ray_t, rs).hit
    /\ UNCHANGED <<world, bvh, request, built, phase>>
    /\ UNCHANGED <<aabbVars, cameraVars, mainVars, callVars>>

MeshNext ==
    \/ PushTransformed
    \/ PushQuad
    \/ PushSphereStationary
    \/ PushSphereMoving
    \/ PushCube
    \/ PushMedium
    \/ BuildBvh
    \/ HitQuery

(***************************************************************************)
(* Clients of the public Aabb API: Aabb::default, Aabb::new,               *)
(* Aabb::from_extremes and merge, applied to a small file of values.       *)
(***************************************************************************)
AabbRegisters == 3

AabbIntervals == {Interval(Zero, Zero), Interval(Zero, One), Interval(One, I(2))}
AabbPoints == {V(0, 0, 0), V(1, 1, 1)}

AabbInit ==
    boxes = [i \in 1..AabbRegisters |-> Aabb_default]

\* boxes[i] = Aabb::new(x, y, z)
AabbNew ==
    \E i \in 1..AabbRegisters, x \in AabbIntervals :
        /\ boxes' = [boxes EXCEPT ![i] = Aabb_new(x, Interval(Zero, One), Interval(Zero, One))]
        /\ UNCHANGED <<meshVars, cameraVars, mainVars, callVars>>

\* boxes[i] = Aabb::from_extremes(a, b)
AabbFromExtremes ==
    \E i \in 1..AabbRegisters, a \in AabbPoints, b \in AabbPoints :
        /\ boxes' = [boxes EXCEPT ![i] = Aabb_from_extremes(a, b)]
        /\ UNCHANGED <<meshVars, cameraVars, mainVars, callVars>>

\* boxes[i] = boxes[j].merge(&boxes[k])
AabbMerge ==
    /\ \E i \in 1..AabbRegisters, j \in 1..AabbRegisters, k \in 1..AabbRegisters :
        boxes' = [boxes EXCEPT ![i] = Aabb_merge(boxes[j], boxes[k])]
    /\ UNCHANGED <<meshVars, cameraVars, mainVars, callVars>>

\* Meshes whose bounding_box() a client reads: a World nothing was pushed
\* into, and the sphere inscribed in the unit cube.
AabbMeshes ==
    {World_new, Sphere_stationary(Vec3(Q(1, 2), Q(1, 2), Q(1, 2)), Q(1, 2), Gray)}

\* boxes[i] = mesh.bounding_box().clone()
AabbBoundingBox ==
    \E i \in 1..AabbRegisters, mesh \in AabbMeshes :
        /\ boxes' = [boxes EXCEPT ![i] = bounding_box(mesh)]
        /\ UNCHANGED <<meshVars, cameraVars, mainVars, callVars>>

AabbNext ==
    \/ AabbNew
    \/ AabbFromExtremes
    \/ AabbMerge
    \/ AabbBoundingBox

(***************************************************************************)
(* Materials (material.rs): scatter and emitted.  r is the vector          *)
(* random_unit_vec returns to the call.                                    *)
(***************************************************************************)
near_zero(v) ==
    LET s == Q(1, 100000000)
    IN  QLt(QAbs(v[1]), s) /\ QLt(QAbs(v[2]), s) /\ QLt(QAbs(v[3]), s)

Lambertian_scatter_direction(hit, r) ==
    Let(VAdd(hit.normal, r), LAMBDA dir :
    IF near_zero(dir) THEN hit.normal ELSE dir)

Lambertian_scatter(m, ray, hit, r) ==
    [some |-> TRUE,
     attenuation |-> m.albedo,
     scattered |-> Ray_new(hit.point, Lambertian_scatter_direction(hit, r), ray.time)]

Isotropic_scatter(m, ray, hit, r) ==
    [some |-> TRUE,
     attenuation |-> m.albedo,
     scattered |-> Ray_new(hit.point, r, ray.time)]

Material_scatter(m, ray, hit, r) ==
    CASE m.kind = "Lambertian" -> Lambertian_scatter(m, ray, hit, r)
      [] m.kind = "Isotropic" -> Isotropic_scatter(m, ray, hit, r)
      [] m.kind = "DiffuseLight" -> None

Material_emitted(m) == IF m.kind = "DiffuseLight" THEN m.albedo ELSE VZERO

Dielectric(refraction_index) == [kind |-> "Dielectric", refraction_index |-> refraction_index]

reflectance(cosine, refraction_index) ==
    Let(QDiv(QSub(One, refraction_index), QAdd(One, refraction_index)), LAMBDA q :
    Let(QMul(q, q), LAMBDA r0 :
    Let(QSub(One, cosine), LAMBDA c :
    QAdd(r0, QMul(QSub(One, r0), QMul(c, QMul(c, QMul(c, QMul(c, c)))))))))

reflect(v, n) == VSub(v, VScale(n, QMul(I(2), Dot(v, n))))

\* -uv.dot(n).min(1.): the minimum is taken first, then negated.
refract(uv, n, etai_over_etat) ==
    Let(QNeg(QMin(Dot(uv, n), One)), LAMBDA cos_theta :
    Let(VScale(VAdd(uv, VScale(n, cos_theta)), etai_over_etat), LAMBDA r_out_prep :
    Let(VScale(n, QNeg(QSqrt(QAbs(QSub(One, LengthSquared(r_out_prep)))))), LAMBDA r_out_parallel :
    VAdd(r_out_prep, r_out_parallel))))

\* The relative refraction index Dielectric::scatter chooses from the hit.
Dielectric_ri(m, hit) ==
    IF hit.front_face THEN QDiv(One, m.refraction_index) ELSE m.refraction_index

\* Dielectric::scatter; u is the value of rand::random::<f32>().
Dielectric_scatter(m, r_in, hit, u) ==
    Let(Dielectric_ri(m, hit), LAMBDA ri :
    Let(Normalize(r_in.direction), LAMBDA unit_dir :
    Let(QNeg(QMin(Dot(unit_dir, hit.normal), One)), LAMBDA cos_theta :
    Let(QSqrt(QSub(One, QMul(cos_theta, cos_theta))), LAMBDA sin_theta :
    Let(QGt(QMul(ri, sin_theta), One), LAMBDA cannot_refact :
    [some |-> TRUE,
     attenuation |-> V(1, 1, 1),
     scattered |-> Ray_new(hit.point,
                           IF cannot_refact \/ QGt(reflectance(cos_theta, ri), u)
                           THEN reflect(unit_dir, hit.normal)
                           ELSE refract(unit_dir, hit.normal, ri),
                           r_in.time)])))))

(***************************************************************************)
(* Camera (camera.rs).  Angles are whole degrees; tan is tabulated on the  *)
(* angles the configurations use.                                          *)
(***************************************************************************)
TanDeg(degrees) == CASE degrees = 0 -> Zero [] degrees = 45 -> One

CameraConfig(width, height, samples_per_pixel, max_depth, defocus_angle) ==
    [width |-> width,
     height |-> height,
     samples_per_pixel |-> samples_per_pixel,
     max_depth |-> max_depth,
     vfov |-> 90,
     lookfrom |-> VZERO,
     lookat |-> V(0, 0, -1),
     vup |-> VY,
     defocus_angle |-> defocus_angle,
     focus_dist |-> One]

NoCamera == [made |-> FALSE]

\* The camera basis: w, u of Camera::new (v is w x u).
Camera_frame(cfg, viewport_width, viewport_height, w, u) ==
    Let(Cross(w, u), LAMBDA v :
    Let(VScale(u, viewport_width), LAMBDA viewport_u :
    Let(VScale(VNeg(v), viewport_height), LAMBDA viewport_v :
    Let(VDivS(viewport_u, I(cfg.width)), LAMBDA pixel_delta_u :
    Let(VDivS(viewport_v, I(cfg.height)), LAMBDA pixel_delta_v :
    Let(VSub(VSub(VSub(cfg.lookfrom, VScale(w, cfg.focus_dist)), VDivS(viewport_u, I(2))),
             VDivS(viewport_v, I(2))), LAMBDA viewport_upper_left :
    Let(QMul(cfg.focus_dist, TanDeg(cfg.defocus_angle \div 2)), LAMBDA defocus_radius :
    [made |-> TRUE,
     config |-> cfg,
     center |-> cfg.lookfrom,
     pixel00_loc |-> VAdd(viewport_upper_left,
                          VScale(VAdd(pixel_delta_u, pixel_delta_v), Q(1, 2))),
     pixel_delta_u |-> pixel_delta_u,
     pixel_delta_v |-> pixel_delta_v,
     pixel_samples_scale |-> QDiv(One, I(cfg.samples_per_pixel)),
     defocus_disk_u |-> VScale(u, defocus_radius),
     defocus_disk_v |-> VScale(v, defocus_radius)])))))))

Camera_new(cfg) ==
    Let(QDiv(I(cfg.width), I(cfg.height)), LAMBDA aspect_ratio :
    Let(TanDeg(cfg.vfov \div 2), LAMBDA h :
    Let(QMul(QMul(I(2), h), cfg.focus_dist), LAMBDA viewport_height :
    Let(QMul(viewport_height, aspect_ratio), LAMBDA viewport_width :
    Let(Normalize(VSub(cfg.lookfrom, cfg.lookat)), LAMBDA w :
    Camera_frame(cfg, viewport_width, viewport_height, w, Cross(cfg.vup, w)))))))

\* point is the value random_in_unit_disk returns.
defocus_disk_sample(cam, point) ==
    VAdd(VAdd(cam.center, VScale(cam.defocus_disk_u, point[1])),
         VScale(cam.defocus_disk_v, point[2]))

\* offset is the value sample_square returns.  Ray::new takes no time here.
get_ray(cam, x, y, offset, point) ==
    Let(VAdd(VAdd(cam.pixel00_loc, VScale(cam.pixel_delta_u, QAdd(I(x), offset[1]))),
             VScale(cam.pixel_delta_v, QAdd(I(y), offset[2]))), LAMBDA pixel_sample :
    Let(IF cam.config.defocus_angle <= 0 THEN cam.center ELSE defocus_disk_sample(cam, point),
        LAMBDA ray_origin :
    Ray_new(cam.center, VSub(pixel_sample, ray_origin), Zero)))

\* ray.dir.normalize().y; 0 / length is 0 whatever the length.
unit_dir_y(dir) == IF dir[2] = Zero THEN Zero ELSE Normalize(dir)[2]

ExactUnitDir(dir) ==
    Let(LengthSquared(dir), LAMBDA len2 :
    IsFinite(len2) /\ len2 # Zero /\ (dir[2] = Zero \/ IsSquare(len2)))

\* The last branch of ray_color: the gradient returned when nothing is hit.
ray_color_miss(ray) ==
    Let(QMul(Q(1, 2), QAdd(unit_dir_y(ray.direction), One)), LAMBDA a :
    VAdd(VScale(V(1, 1, 1), QSub(One, a)), VScale(Vec3(Q(1, 2), Q(7, 10), One), a)))

\* A recursion that passes its own depth on, for comparison with ray_color's.
ray_color_same_depth(depth) == depth

\* The depth ray_color passes to its recursive call.
ray_color_depth(depth) == depth - 1

\* The value of the i-th nested ray_color call: stack holds the scatter
\* frames, outermost first, and terminal is the innermost call's value.
RECURSIVE ray_color_value(_, _, _)
ray_color_value(stack, i, terminal) ==
    IF i > Len(stack) THEN terminal
    ELSE VMul(stack[i].attenuation, ray_color_value(stack, i + 1, terminal))

\* The scattering calls of one ray_color evaluation, outermost first.
ray_color_unwind(stack, terminal) ==
    [i \in 1..Len(stack) |->
        [how |-> "scatter",
         depth |-> stack[i].depth,
         material |-> stack[i].material,
         attenuation |-> stack[i].attenuation,
         inner |-> ray_color_value(stack, i + 1, terminal),
         value |-> ray_color_value(stack, i, terminal)]]

\* (intensity.clamp(linear_to_gamma(c)) * 255.) as u8 for one component.
render_color_component(c) ==
    IF ~QGt(c, Zero) THEN 0
    ELSE IF c = INFINITY THEN 254
    ELSE LET root == ISqrt((65025 * c[1]) \div c[2])
         IN  IF root > 254 THEN 254 ELSE root

render_color(c) ==
    <<render_color_component(c[1]), render_color_component(c[2]),
      render_color_component(c[3])>>

(***************************************************************************)
(* Bounds and input sets of the camera model.                              *)
(***************************************************************************)
MaxWidth == 2
MaxHeight == 2
MaxSamples == 2
MaxDepth == 2

DefocusAngles == {0, 90}
Configs ==
    {CameraConfig(w, h, s, d, a) :
        w \in 0..MaxWidth, h \in 0..MaxHeight, s \in 0..MaxSamples,
        d \in 0..MaxDepth, a \in DefocusAngles}

FrontWall(material) == Quad_new(V(-4, -4, -2), V(8, 0, 0), V(0, 8, 0), material)
BackWall(material) == Quad_new(V(-4, -4, 2), V(8, 0, 0), V(0, 8, 0), material)
Scenes ==
    {World_new,
     World_push(World_new, FrontWall(Gray)),
     World_push(World_new, FrontWall(Light)),
     World_push(World_push(World_new, FrontWall(Gray)), BackWall(Gray)),
     Bvh_from(<<FrontWall(Gray), BackWall(Light)>>)}

SquareSamples == {<<Zero, Zero>>, <<Q(-1, 2), Zero>>}
DiskSamples == {<<Zero, Zero>>, <<Q(1, 2), Zero>>}
UnitVectors == {VZ, VNeg(VZ), VX}
NoMaterial == [kind |-> "None", albedo |-> VZERO]
NoDraws == [vals |-> <<>>, k |-> 0]

NoPath == [ray |-> Ray_new(VZERO, VZERO, Zero), depth |-> 0, stack |-> <<>>, queries |-> 0]
NoCursor == [x |-> 0, y |-> 0, s |-> 0]

(***************************************************************************)
(* Camera::new, Camera::render and the calls of ray_color.                 *)
(***************************************************************************)
CameraInit ==
    /\ config = CameraConfig(100, 100, 10, 10, 0)
    /\ camera = NoCamera
    /\ scene = World_new
    /\ cphase = "config"
    /\ cursor = NoCursor
    /\ color = VZERO
    /\ path = NoPath
    /\ frames = <<>>
    /\ output = <<>>

\* An accumulator declared outside the pixel loops: it keeps its value.
render_pixel_keep(previous) == previous

\* let mut color = Vec3::ZERO; at the start of every pixel.
render_pixel_start(previous) == VZERO

\* A stream that takes every line, progress included.
Stream_all_out(kind) == "out"

\* println! writes the header and the pixels to standard output, eprintln!
\* the progress lines to standard error.
Stream(kind) == IF kind \in {"header", "pixel"} THEN "out" ELSE "err"

\* One line of output; x, y is the loop position when it is written.
Line(kind, x, y, value) ==
    [stream |-> Stream(kind), kind |-> kind, x |-> x, y |-> y, value |-> value]

\* println!("P3\n{} {}\n255", width, height)
Header(cfg) == Line("header", 0, 0, <<cfg.width, cfg.height, 255>>)

\* eprintln!("Scanlines remaining: {}.", height - y)
Scanlines(cfg, y) == Line("scanlines", 0, y, <<cfg.height - y>>)

\* eprintln!("Done.")
Done == Line("done", 0, 0, <<>>)

\* let camera = Camera::new(camera_config);
CameraNew ==
    /\ cphase = "config"
    /\ \E cfg \in Configs, w \in Scenes :
        /\ config' = cfg
        /\ camera' = Camera_new(cfg)
        /\ scene' = w
    /\ cphase' = "ready"
    /\ UNCHANGED <<cursor, color, path, frames, output>>
    /\ UNCHANGED <<meshVars, aabbVars, mainVars, callVars>>

\* render: the header is printed and the loops are entered.  Without rows
\* the loops are over at once; without columns every row prints its progress
\* line and no pixel.
Render ==
    /\ cphase = "ready"
    /\ cphase' = IF camera.config.height <= 0 \/ camera.config.width <= 0
                 THEN "done" ELSE "sampling"
    /\ output' =
          IF camera.config.height <= 0
          THEN output \o <<Header(camera.config), Done>>
          ELSE IF camera.config.width <= 0
          THEN output \o <<Header(camera.config)>>
                      \o [i \in 1..camera.config.height |-> Scanlines(camera.config, i - 1)]
                      \o <<Done>>
          ELSE output \o <<Header(camera.config), Scanlines(camera.config, 0)>>
    /\ cursor' = NoCursor
    /\ color' = render_pixel_start(color)
    /\ UNCHANGED <<config, camera, scene, path, frames>>
    /\ UNCHANGED <<meshVars, aabbVars, mainVars, callVars>>

\* One iteration of the sample loop up to the call of ray_color.
Sample ==
    /\ cphase = "sampling"
    /\ cursor.s < camera.config.samples_per_pixel
    /\ \E offset \in SquareSamples, point \in DiskSamples :
        path' = [ray |-> get_ray(camera, cursor.x, cursor.y, offset, point),
                 depth |-> camera.config.max_depth,
                 stack |-> <<>>,
                 queries |-> 0]
    /\ cphase' = "tracing"
    /\ UNCHANGED <<config, camera, scene, cursor, color, frames, output>>
    /\ UNCHANGED <<meshVars, aabbVars, mainVars, callVars>>

\* The outermost ray_color returns: color += value; next sample.
Return(terminal, queries) ==
    \E calls \in {ray_color_unwind(path.stack, terminal.value) \o <<terminal>>} :
        /\ frames' = calls
        /\ color' = VAdd(color, calls[1].value)
        /\ cursor' = [cursor EXCEPT !.s = cursor.s + 1]
        /\ path' = [path EXCEPT !.queries = queries]
        /\ cphase' = "sampling"
        /\ UNCHANGED <<config, camera, scene, output>>

Terminal(how, material, value) ==
    [how |-> how, depth |-> path.depth, material |-> material,
     attenuation |-> VZERO, inner |-> VZERO, value |-> value]

WorldHit == Mesh_hit(scene, path.ray, Interval(Q(1, 1000), INFINITY), NoDraws).hit

\* if depth <= 0 { Vec3::ZERO }
RayColorExhausted ==
    /\ cphase = "tracing"
    /\ path.depth <= 0
    /\ Return(Terminal("exhausted", NoMaterial, VZERO), path.queries)
    /\ UNCHANGED <<meshVars, aabbVars, mainVars, callVars>>

\* hit, and the material scatters: recurse on the scattered ray.
RayColorScatter ==
    /\ cphase = "tracing"
    /\ path.depth > 0
    /\ path.queries <= MaxDepth
    /\ \E hit \in {WorldHit}, r \in UnitVectors :
        /\ hit.some
        /\ \E scatter \in {Material_scatter(hit.material, path.ray, hit, r)} :
            /\ scatter.some
            /\ path' = [ray |-> scatter.scattered,
                        depth |-> ray_color_depth(path.depth),
                        stack |-> Append(path.stack,
                                         [depth |-> path.depth,
                                          material |-> hit.material,
                                          attenuation |-> scatter.attenuation]),
                        queries |-> path.queries + 1]
    /\ UNCHANGED <<config, camera, scene, cphase, cursor, color, frames, output>>
    /\ UNCHANGED <<meshVars, aabbVars, mainVars, callVars>>

\* hit, and the material does not scatter: Vec3::ZERO.
RayColorAbsorb ==
    /\ cphase = "tracing"
    /\ path.depth > 0
    /\ \E hit \in {WorldHit} :
        /\ hit.some
        /\ ~Material_scatter(hit.material, path.ray, hit, VZ).some
        /\ Return(Terminal("absorb", hit.material, VZERO), path.queries + 1)
    /\ UNCHANGED <<meshVars, aabbVars, mainVars, callVars>>

\* no hit: the gradient.
RayColorMiss ==
    /\ cphase = "tracing"
    /\ path.depth > 0
    /\ \E hit \in {WorldHit} :
        /\ ~hit.some
        /\ ExactUnitDir(path.ray.direction)
        /\ Return(Terminal("miss", NoMaterial, ray_color_miss(path.ray)), path.queries + 1)
    /\ UNCHANGED <<meshVars, aabbVars, mainVars, callVars>>

\* The sample loop is over: the pixel is printed and the loops advance.
RenderColor ==
    /\ cphase = "sampling"
    /\ cursor.s >= camera.config.samples_per_pixel
    /\ color' = render_pixel_start(color)
    /\ LET x == cursor.x + 1
           y == IF x >= camera.config.width THEN cursor.y + 1 ELSE cursor.y
           pixel == Line("pixel", cursor.x, cursor.y,
                         render_color(VScale(color, camera.pixel_samples_scale)))
       IN  /\ cursor' = [x |-> IF x >= camera.config.width THEN 0 ELSE x, y |-> y, s |-> 0]
           /\ cphase' = IF y >= camera.config.height THEN "done" ELSE "sampling"
           /\ output' =
                 IF y >= camera.config.height THEN output \o <<pixel, Done>>
                 ELSE IF y > cursor.y THEN output \o <<pixel, Scanlines(camera.config, y)>>
                 ELSE output \o <<pixel>>
    /\ UNCHANGED <<config, camera, scene, path, frames>>
    /\ UNCHANGED <<meshVars, aabbVars, mainVars, callVars>>

CameraNext ==
    \/ CameraNew
    \/ Render
    \/ Sample
    \/ RayColorExhausted
    \/ RayColorScatter
    \/ RayColorAbsorb
    \/ RayColorMiss
    \/ RenderColor

(***************************************************************************)
(* Two renders of one scene with one camera, one after the other: the      *)
(* random values of each come from rand::thread_rng() and rand::random(),  *)
(* which take no seed from the program.                                    *)
(***************************************************************************)
RunConfigs == {CameraConfig(1, 1, 1, d, 0) : d \in 1..MaxDepth}

\* let camera = Camera::new(camera_config); for the configurations rendered twice.
RunsNew ==
    /\ cphase = "config"
    /\ \E cfg \in RunConfigs, w \in Scenes :
        /\ config' = cfg
        /\ camera' = Camera_new(cfg)
        /\ scene' = w
    /\ cphase' = "ready"
    /\ UNCHANGED <<cursor, color, path, frames, output>>
    /\ UNCHANGED <<meshVars, aabbVars, mainVars, callVars>>

\* The first render is over and render is called again on the same camera
\* and scene.
RenderAgain ==
    /\ cphase = "done"
    /\ Len(SelectSeq(output, LAMBDA l : l.kind = "header")) = 1
    /\ cphase' = "ready"
    /\ UNCHANGED <<config, camera, scene, cursor, color, path, frames, output>>
    /\ UNCHANGED <<meshVars, aabbVars, mainVars, callVars>>

RunsNext ==
    \/ RunsNew
    \/ Render
    \/ Sample
    \/ RayColorExhausted
    \/ RayColorScatter
    \/ RayColorAbsorb
    \/ RayColorMiss
    \/ RenderColor
    \/ RenderAgain

(***************************************************************************)
(* main (main.rs).  A scene builder is the sequence of its calls that can  *)
(* fail or that build a Bvh, in source order; main calls one builder.      *)
(***************************************************************************)
MainPixels == 3

Builders == {"bouncing_spheres", "checkered_spheres", "earth", "perlin_spheres", "quads",
             "simple_light", "cornell_box", "cornell_smoke", "final_scene"}

BuilderCalls(b) ==
    CASE b = "earth" -> <<"ImageTexture::open">>
      [] b = "final_scene" -> <<"Bvh::from", "ImageTexture::open", "Bvh::from">>
      [] OTHER -> <<>>

ImageStates == {"readable", "unreadable"}

\* ImageTexture::open: image::open(path).map(Self::from)
ImageTexture_open(state) == IF state = "readable" THEN "Ok" ELSE "Err"

\* The ? operator on an ImageResult: Err returns from the function.
Try_swallow(res) == "continue"

Try(res) == IF res = "Err" THEN "return" ELSE "continue"

NoEffects ==
    [calls |-> 0, openFailed |-> FALSE, builderBvhs |-> 0, bvh |-> FALSE,
     camera |-> FALSE, pixels |-> 0, file |-> FALSE, written |-> FALSE]

MainInit ==
    /\ pc = "start"
    /\ builder = "cornell_smoke"
    /\ image = "readable"
    /\ effects = NoEffects
    /\ result = "running"

\* main is entered; the builder it calls and the state of the image file
\* are the inputs of a run.
MainStart ==
    /\ pc = "start"
    /\ \E b \in Builders, s \in ImageStates :
        /\ builder' = b
        /\ image' = s
    /\ pc' = "builder"
    /\ UNCHANGED <<effects, result>>
    /\ UNCHANGED <<meshVars, aabbVars, cameraVars, callVars>>

\* The builder calls Bvh::from on a part of the scene.
BuilderBvh ==
    /\ pc = "builder"
    /\ effects.calls < Len(BuilderCalls(builder))
    /\ BuilderCalls(builder)[effects.calls + 1] = "Bvh::from"
    /\ effects' = [effects EXCEPT !.calls = effects.calls + 1,
                                  !.builderBvhs = effects.builderBvhs + 1]
    /\ UNCHANGED <<pc, builder, image, result>>
    /\ UNCHANGED <<meshVars, aabbVars, cameraVars, callVars>>

\* The builder calls ImageTexture::open(...)?; main's own ? passes an Err on.
BuilderOpen ==
    /\ pc = "builder"
    /\ effects.calls < Len(BuilderCalls(builder))
    /\ BuilderCalls(builder)[effects.calls + 1] = "ImageTexture::open"
    /\ LET res == ImageTexture_open(image)
       IN  /\ effects' = [effects EXCEPT !.calls = effects.calls + 1,
                                         !.openFailed = (res = "Err")]
           /\ IF Try(res) = "return"
              THEN pc' = "exit" /\ result' = "Err(ImageTexture::open)"
              ELSE pc' = pc /\ result' = result
    /\ UNCHANGED <<builder, image>>
    /\ UNCHANGED <<meshVars, aabbVars, cameraVars, callVars>>

\* The builder returns Ok((camera_config, world)).
BuilderReturn ==
    /\ pc = "builder"
    /\ effects.calls = Len(BuilderCalls(builder))
    /\ pc' = "bvh"
    /\ UNCHANGED <<builder, image, effects, result>>
    /\ UNCHANGED <<meshVars, aabbVars, cameraVars, callVars>>

\* let bvh_world = Bvh::from(&world);
MainBvh ==
    /\ pc = "bvh"
    /\ effects' = [effects EXCEPT !.bvh = TRUE]
    /\ pc' = "camera"
    /\ UNCHANGED <<builder, image, result>>
    /\ UNCHANGED <<meshVars, aabbVars, cameraVars, callVars>>

\* let camera = Camera::new(camera_config);
MainCamera ==
    /\ pc = "camera"
    /\ effects' = [effects EXCEPT !.camera = TRUE]
    /\ pc' = "render"
    /\ UNCHANGED <<builder, image, result>>
    /\ UNCHANGED <<meshVars, aabbVars, cameraVars, callVars>>

\* camera.render(&bvh_world): one pixel.
MainRenderPixel ==
    /\ pc = "render"
    /\ effects.pixels < MainPixels
    /\ effects' = [effects EXCEPT !.pixels = effects.pixels + 1]
    /\ UNCHANGED <<pc, builder, image, result>>
    /\ UNCHANGED <<meshVars, aabbVars, cameraVars, callVars>>

\* let mut file = File::create("image.png")?;
MainFileCreate ==
    /\ pc = "render"
    /\ effects.pixels = MainPixels
    /\ \E res \in {"Ok", "Err"} :
        IF Try(res) = "return"
        THEN pc' = "exit" /\ result' = "Err(File::create)" /\ effects' = effects
        ELSE pc' = "write" /\ result' = result /\ effects' = [effects EXCEPT !.file = TRUE]
    /\ UNCHANGED <<builder, image>>
    /\ UNCHANGED <<meshVars, aabbVars, cameraVars, callVars>>

\* image.write_to(&mut file, ImageFormat::Png)?; Ok(())
MainWrite ==
    /\ pc = "write"
    /\ \E res \in {"Ok", "Err"} :
        IF Try(res) = "return"
        THEN result' = "Err(write_to)" /\ effects' = effects
        ELSE result' = "Ok" /\ effects' = [effects EXCEPT !.written = TRUE]
    /\ pc' = "exit"
    /\ UNCHANGED <<builder, image>>
    /\ UNCHANGED <<meshVars, aabbVars, cameraVars, callVars>>

MainNext ==
    \/ MainStart
    \/ BuilderBvh
    \/ BuilderOpen
    \/ BuilderReturn
    \/ MainBvh
    \/ MainCamera
    \/ MainRenderPixel
    \/ MainFileCreate
    \/ MainWrite

(***************************************************************************)
(* Single calls of the library's functions on arguments drawn from small   *)
(* sets: call records the function, its arguments and what it returned.    *)
(***************************************************************************)
MaxExtent == 3

\* Boxes from Aabb::new with every combination of extents 1..MaxExtent.
ExtentBoxes ==
    {Aabb_new(Interval(Zero, I(sx)), Interval(Zero, I(sy)), Interval(Zero, I(sz))) :
        sx \in 1..MaxExtent, sy \in 1..MaxExtent, sz \in 1..MaxExtent}

CallInit == call = NoCall

\* bbox.longest_axis()
CallLongestAxis ==
    /\ call = NoCall
    /\ \E box \in ExtentBoxes :
        call' = [fn |-> "Aabb::longest_axis", box |-> box, result |-> Aabb_longest_axis(box)]
    /\ UNCHANGED <<meshVars, aabbVars, cameraVars, mainVars>>

\* Boundaries of a medium, densities, and values of rand::random::<f32>().ln():
\* random() lies in [0, 1), so its logarithm is negative or -inf, never 0.
Boundaries == {Sphere_stationary(V(0, 0, -1), One, Gray), Cube_new(V(2, -1, -1), V(4, 1, 1), Gray)}
MediumDensities == {Zero, One}
MediumDraws == DrawStreams \cup {[vals |-> <<NEG_INFINITY>>, k |-> 0]}
\* A ray that starts inside the spherical boundary and one through its centre
\* join the rays of the queries; the interval of the medium's own boundary
\* probes and one that ends inside the sphere join the intervals.
MediumRays == Rays \cup {Ray_new(V(0, 0, -1), V(1, 0, 0), Zero), Ray_new(V(-5, 0, -1), V(1, 0, 0), Zero)}
MediumIntervals == QueryIntervals \cup {Interval_UNIVERSE, Interval(Zero, Q(9, 2))}

\* ConstantMedium::new(boundary, density, texture).hit(ray, ray_t); entry and
\* exit are the two crossings of the boundary the call starts from.
CallMediumHit ==
    /\ call = NoCall
    /\ \E boundary \in Boundaries, density \in MediumDensities, ray \in MediumRays,
          ray_t \in MediumIntervals, rs \in MediumDraws :
        /\ ExactQuery(boundary, ray)
        /\ IsSquare(LengthSquared(ray.direction))
        /\ \E entry \in {Mesh_hit(boundary, ray, Interval_UNIVERSE, rs).hit} :
            call' = [fn |-> "ConstantMedium::hit",
                     density |-> density,
                     ray |-> ray,
                     ray_t |-> ray_t,
                     draw |-> Draw(rs),
                     albedo |-> V(1, 1, 1),
                     entry |-> entry,
                     exit |-> IF entry.some
                              THEN Mesh_hit(boundary, ray,
                                            Interval(QAdd(entry.distance, Q(1, 10000)), INFINITY),
                                            rs).hit
                              ELSE None,
                     result |-> Mesh_hit(ConstantMedium_new(boundary, density, V(1, 1, 1)),
                                         ray, ray_t, rs).hit]
    /\ UNCHANGED <<meshVars, aabbVars, cameraVars, mainVars>>

MaxList == 3

\* Meshes a Bvh is built from: unit quads in planes z = 5, 6, 7 and a sphere.
Leaves ==
    {Quad_new(V(3, 0, 5), VX, VY, Gray),
     Quad_new(V(0, 0, 6), VX, VY, Gray),
     Quad_new(V(1, 0, 7), VX, VY, Gray),
     Sphere_stationary(V(0, 0, -1), One, Gray)}

\* The lists of 1..MaxList different meshes.
LeafLists ==
    {list \in UNION {[1..n -> Leaves] : n \in 1..MaxList} :
        \A i \in 1..Len(list), j \in 1..Len(list) : list[i] = list[j] => i = j}

\* Bvh::from(&world) of the World the meshes of list were pushed into in order.
CallBvhFrom ==
    /\ call = NoCall
    /\ \E list \in LeafLists :
        call' = [fn |-> "Bvh::from",
                 value |-> list,
                 world |-> World_pushed(World_new, list, 0),
                 result |-> Bvh_from(list)]
    /\ UNCHANGED <<meshVars, aabbVars, cameraVars, mainVars>>

\* Children of a two-leaf Bvh: a quad in the plane x = -1/2, a medium of
\* density 1 bounded by the unit sphere at (0, 0, -1), and that sphere.
Children ==
    {Quad_new(Vec3(Q(-1, 2), I(-1), I(-2)), V(0, 2, 0), V(0, 0, 2), Gray),
     ConstantMedium_new(Sphere_stationary(V(0, 0, -1), One, Gray), One, V(1, 1, 1)),
     Sphere_stationary(V(0, 0, -1), One, Gray)}

\* Rays along x through the children from either side, and one that passes
\* beside them.
ChildRays ==
    {Ray_new(V(-5, 0, -1), V(1, 0, 0), Zero),
     Ray_new(V(5, 0, -1), V(-1, 0, 0), Zero),
     Ray_new(V(-5, 0, 5), V(1, 0, 0), Zero)}

\* Bvh::from([left, right]).hit(ray, ray_t); box is the answer of the node's
\* bbox and left the answer of the left child to the same ray and ray_t.
CallBvhHit ==
    /\ call = NoCall
    /\ \E left \in Children, right \in Children, ray \in ChildRays,
          ray_t \in QueryIntervals, rs \in DrawStreams :
        \E node \in {Bvh_from(<<left, right>>)} :
            /\ ExactQuery(node, ray)
            /\ call' = [fn |-> "Bvh::hit",
                        node |-> node,
                        ray |-> ray,
                        ray_t |-> ray_t,
                        rs |-> rs,
                        box |-> Aabb_hit(node.bbox, ray, ray_t),
                        left |-> Mesh_hit(node.left, ray, ray_t, rs),
                        result |-> Mesh_hit(node, ray, ray_t, rs)]
    /\ UNCHANGED <<meshVars, aabbVars, cameraVars, mainVars>>

\* The lists of different children: the members of a World in push order.
MemberLists ==
    {list \in UNION {[1..n -> Children] : n \in 1..Cardinality(Children)} :
        \A i \in 1..Len(list), j \in 1..Len(list) : list[i] = list[j] => i = j}

Reversed(list) == [i \in 1..Len(list) |-> list[Len(list) + 1 - i]]

\* World::hit(ray, ray_t) of the World the members were pushed into in order;
\* reversed is the answer of the World with the members pushed in reverse.
CallWorldHit ==
    /\ call = NoCall
    /\ \E members \in MemberLists, ray \in ChildRays, ray_t \in QueryIntervals,
          rs \in DrawStreams :
        /\ \A i \in 1..Len(members) : ExactQuery(members[i], ray)
        /\ call' = [fn |-> "World::hit",
                    members |-> members,
                    ray |-> ray,
                    ray_t |-> ray_t,
                    rs |-> rs,
                    result |-> World_hit(World_pushed(World_new, members, 0), ray, ray_t, rs).hit,
                    reversed |-> World_hit(World_pushed(World_new, Reversed(members), 0),
                                           ray, ray_t, rs).hit]
    /\ UNCHANGED <<meshVars, aabbVars, cameraVars, mainVars>>

\* Boxes, rays and intervals of Aabb::hit calls: the rays go through, beside,
\* towards and away from the boxes; the last has a zero direction component.
HitBoxes ==
    {Aabb_from_extremes(V(0, 0, 0), V(1, 1, 1)),
     Aabb_from_extremes(V(-1, -1, -2), V(1, 1, 0)),
     Aabb_new(Interval(I(2), I(3)), Interval(Zero, Zero), Interval(I(-1), I(4)))}
BoxRays ==
    {Ray_new(V(-2, -2, -2), V(1, 1, 1), Zero),
     Ray_new(V(3, 3, 3), V(-1, -1, -1), Zero),
     Ray_new(V(3, 3, 3), V(1, 1, 1), Zero),
     Ray_new(V(-3, -1, -3), V(2, 1, 1), Zero),
     Ray_new(V(4, 1, -2), V(-2, -1, 1), Zero),
     Ray_new(V(5, -2, 3), V(-1, 1, -1), Zero),
     Ray_new(V(0, 0, -5), V(1, 1, 4), Zero),
     Ray_new(V(-5, 0, -1), V(1, 0, 0), Zero)}
BoxIntervals == QueryIntervals \cup {Interval(Zero, One), Interval(I(2), I(3))}

\* box.hit(&ray, &ray_t); hit narrows a clone of ray_t (let mut ray_t =
\* ray_t.clone()), so the caller's interval after the call is the one passed.
CallAabbHit ==
    /\ call = NoCall
    /\ \E box \in HitBoxes, ray \in BoxRays, ray_t \in BoxIntervals :
        call' = [fn |-> "Aabb::hit",
                 box |-> box,
                 ray |-> ray,
                 ray_t |-> ray_t,
                 caller |-> ray_t,
                 result |-> Aabb_hit(box, ray, ray_t)]
    /\ UNCHANGED <<meshVars, aabbVars, cameraVars, mainVars>>

\* Glass spheres at (0, 0, -1) and rays along z that meet them head-on from
\* outside and from the centre; values of rand::random::<f32>().
RefractionIndices == {Q(3, 2), I(2), Q(1, 2)}
GlassRays ==
    {Ray_new(V(0, 0, 2), V(0, 0, -1), Zero),
     Ray_new(V(0, 0, -4), V(0, 0, 2), Zero),
     Ray_new(V(0, 0, -1), V(0, 0, 1), Zero),
     Ray_new(V(0, 0, -1), V(0, 0, -2), Zero)}
UnitDraws == {Zero, Q(1, 100), Q(1, 2)}

\* hit = sphere.hit(ray, ray_t) followed by hit.material.scatter(ray, &hit);
\* outward is the sphere's outward normal at the hit point and ri the relative
\* refraction index the scatter computes.
CallDielectricScatter ==
    /\ call = NoCall
    /\ \E index \in RefractionIndices, ray \in GlassRays, u \in UnitDraws :
        \E hit \in {Sphere_hit(Sphere_stationary(V(0, 0, -1), One, Dielectric(index)),
                               ray, Interval(Q(1, 1000), INFINITY))} :
            /\ hit.some
            /\ call' = [fn |-> "Dielectric::scatter",
                        refraction_index |-> index,
                        ray |-> ray,
                        hit |-> hit,
                        outward |-> VSub(hit.point, V(0, 0, -1)),
                        ri |-> Dielectric_ri(hit.material, hit),
                        result |-> Dielectric_scatter(hit.material, ray, hit, u)]
    /\ UNCHANGED <<meshVars, aabbVars, cameraVars, mainVars>>

\* camera.get_ray(rng, x, y) on a 2 x 2 image; offset is what sample_square
\* returned, point what random_in_unit_disk returned, and disk the value of
\* defocus_disk_sample for that point.
CallGetRay ==
    /\ call = NoCall
    /\ \E angle \in DefocusAngles, x \in 0..1, y \in 0..1,
          offset \in SquareSamples, point \in DiskSamples :
        \E cam \in {Camera_new(CameraConfig(2, 2, 1, 1, angle))} :
            call' = [fn |-> "Camera::get_ray",
                     camera |-> cam,
                     x |-> x,
                     y |-> y,
                     offset |-> offset,
                     disk |-> defocus_disk_sample(cam, point),
                     result |-> get_ray(cam, x, y, offset, point)]
    /\ UNCHANGED <<meshVars, aabbVars, cameraVars, mainVars>>

\* Centers (from, to) of the spheres of Sphere::hit calls, of radius 1: one
\* at rest and two moving; and the intervals of the calls.
SphereEnds ==
    {<<V(0, 0, -1), V(0, 0, -1)>>, <<V(0, 0, -3), V(0, 2, -3)>>, <<V(0, 0, -1), V(2, 0, -1)>>}
SphereIntervals == MediumIntervals \cup {Interval(Zero, Q(1, 2)), Interval(Q(3, 2), I(3))}

\* Sphere::stationary(from, 1, m) or Sphere::moving(from, to, 1, m), then
\* hit(ray, ray_t).
CallSphereHit ==
    /\ call = NoCall
    /\ \E ends \in SphereEnds, ray \in MediumRays, ray_t \in SphereIntervals :
        \E sphere \in {IF ends[1] = ends[2]
                       THEN Sphere_stationary(ends[1], One, Gray)
                       ELSE Sphere_moving(ends[1], ends[2], One, Gray)} :
            /\ ExactQuery(sphere, ray)
            /\ call' = [fn |-> "Sphere::hit",
                        from |-> ends[1],
                        to |-> ends[2],
                        radius |-> One,
                        ray |-> ray,
                        ray_t |-> ray_t,
                        result |-> Sphere_hit(sphere, ray, ray_t)]
    /\ UNCHANGED <<meshVars, aabbVars, cameraVars, mainVars>>

\* Bvh::from([leaf]).hit(ray, ray_t), and direct: leaf.hit(ray, ray_t) with the
\* same random values to come.
CallSingleLeafHit ==
    /\ call = NoCall
    /\ \E leaf \in Children, ray \in ChildRays, ray_t \in QueryIntervals, rs \in DrawStreams :
        /\ ExactQuery(leaf, ray)
        /\ call' = [fn |-> "Bvh::hit, one leaf",
                    leaf |-> leaf,
                    ray |-> ray,
                    ray_t |-> ray_t,
                    rs |-> rs,
                    direct |-> Mesh_hit(leaf, ray, ray_t, rs),
                    result |-> Mesh_hit(Bvh_from(<<leaf>>), ray, ray_t, rs)]
    /\ UNCHANGED <<meshVars, aabbVars, cameraVars, mainVars>>

CallNext ==
    \/ CallLongestAxis
    \/ CallSingleLeafHit
    \/ CallSphereHit
    \/ CallGetRay
    \/ CallDielectricScatter
    \/ CallBvhFrom
    \/ CallBvhHit
    \/ CallWorldHit
    \/ CallAabbHit
    \/ CallMediumHit

(***************************************************************************)
(* Bvh::from step by step: call holds the stack of its activations, the    *)
(* innermost last.  A frame is the slice an activation was given (sorted   *)
(* once it has split) and its stage: "enter", "left" or "right" while the  *)
(* recursive call for that half runs, "leftdone", "rightdone" after it.    *)
(* The machine's stack has room for MaxStack activations.                  *)
(***************************************************************************)
MaxStack == 5

\* The lists of 0..MaxList different meshes: the meshes of a World.
BuildLists == LeafLists \cup {<<>>}

Frame(value, stage) == [value |-> value, stage |-> stage]

Building == call.fn = "Bvh::from, running" /\ call.status = "running"

Top == call.stack[Len(call.stack)]

\* The stack after the innermost activation has returned to its caller.
Popped(stack) ==
    IF Len(stack) = 1 THEN <<>>
    ELSE [i \in 1..(Len(stack) - 1) |->
            IF i < Len(stack) - 1 THEN stack[i]
            ELSE Frame(stack[i].value,
                       IF stack[i].stage = "left" THEN "leftdone" ELSE "rightdone")]

\* Bvh::from(&world) is called.
BuildCall ==
    /\ call = NoCall
    /\ \E list \in BuildLists :
        call' = [fn |-> "Bvh::from, running",
                 value |-> list,
                 stack |-> <<Frame(list, "enter")>>,
                 status |-> "running"]
    /\ UNCHANGED <<meshVars, aabbVars, cameraVars, mainVars>>

\* value.len() == 1 or value.len() == 2: the node is built and returned.
BuildLeaves ==
    /\ Building
    /\ Top.stage = "enter"
    /\ Len(Top.value) \in {1, 2}
    /\ call' = [call EXCEPT !.stack = Popped(call.stack),
                            !.status = IF Len(call.stack) = 1 THEN "returned" ELSE "running"]
    /\ UNCHANGED <<meshVars, aabbVars, cameraVars, mainVars>>

\* The else branch: sort, mid = len / 2, and Bvh::from(&value[..mid]) is
\* called; without room for its activation the stack overflows.
BuildLeft ==
    /\ Building
    /\ Top.stage = "enter"
    /\ Len(Top.value) \notin {1, 2}
    /\ \E sorted \in {SortByStart(Top.value,
                                  Aabb_longest_axis(Bvh_bbox(Top.value, Len(Top.value))))} :
        call' = IF Len(call.stack) >= MaxStack
                THEN [call EXCEPT !.status = "stack overflow"]
                ELSE [call EXCEPT !.stack =
                        [i \in 1..(Len(call.stack) + 1) |->
                            IF i < Len(call.stack) THEN call.stack[i]
                            ELSE IF i = Len(call.stack) THEN Frame(sorted, "left")
                            ELSE Frame(SubSeq(sorted, 1, Len(sorted) \div 2), "enter")]]
    /\ UNCHANGED <<meshVars, aabbVars, cameraVars, mainVars>>

\* The left half has returned: Bvh::from(&value[mid..]) is called.
BuildRight ==
    /\ Building
    /\ Top.stage = "leftdone"
    /\ call' = IF Len(call.stack) >= MaxStack
               THEN [call EXCEPT !.status = "stack overflow"]
               ELSE [call EXCEPT !.stack =
                       [i \in 1..(Len(call.stack) + 1) |->
                           IF i < Len(call.stack) THEN call.stack[i]
                           ELSE IF i = Len(call.stack) THEN Frame(Top.value, "right")
                           ELSE Frame(SubSeq(Top.value, Len(Top.value) \div 2 + 1,
                                             Len(Top.value)), "enter")]]
    /\ UNCHANGED <<meshVars, aabbVars, cameraVars, mainVars>>

\* Both halves have returned: the node is built and returned.
BuildNode ==
    /\ Building
    /\ Top.stage = "rightdone"
    /\ call' = [call EXCEPT !.stack = Popped(call.stack),
                            !.status = IF Len(call.stack) = 1 THEN "returned" ELSE "running"]
    /\ UNCHANGED <<meshVars, aabbVars, cameraVars, mainVars>>

BuildNext ==
    \/ BuildCall
    \/ BuildLeaves
    \/ BuildLeft
    \/ BuildRight
    \/ BuildNode

(***************************************************************************)
(* Specifications: one per part of the program, each over all variables.   *)
(***************************************************************************)
Init == MeshInit /\ AabbInit /\ CameraInit /\ MainInit /\ CallInit

Next == MeshNext

Spec == Init /\ [][Next]_vars

SpecAabb == Init /\ [][AabbNext]_vars

SpecCamera == Init /\ [][CameraNext]_vars

SpecMain == Init /\ [][MainNext]_vars

SpecCalls == Init /\ [][CallNext]_vars

SpecRuns == Init /\ [][RunsNext]_vars

SpecBuild == Init /\ [][BuildNext]_vars

(***************************************************************************)
(* Properties of the scene model.                                          *)
(***************************************************************************)
OnlyPrimitives(w) ==
    \A i \in 1..Len(w.meshes) : w.meshes[i].kind \in {"Sphere", "Quad"}

MemberHit(i) == Mesh_hit(world.meshes[i], query.ray, query.ray_t, query.rs).hit

\* C1: over a list of n >= 1 spheres and quads, Bvh::from(list).hit and the flat
\* World.hit agree on every ray and interval: both miss, or both hit at the same
\* distance, the least hit distance of any primitive inside ray_t.
C1_BvhAgreesWithWorld ==
    (query.asked /\ OnlyPrimitives(world)) =>
        /\ bvhHit.some = worldHit.some
        /\ worldHit.some => bvhHit.distance = worldHit.distance
        /\ \A i \in 1..Len(world.meshes) :
              MemberHit(i).some =>
                  worldHit.some /\ QLe(worldHit.distance, MemberHit(i).distance)
        /\ worldHit.some =>
              \E i \in 1..Len(world.meshes) :
                  MemberHit(i).some /\ MemberHit(i).distance = worldHit.distance

OpposesRay(hit) == hit.some => QLe(Dot(query.ray.direction, hit.normal), Zero)

IsTranslatedRotation(m) == m.kind = "Translate" /\ m.object.kind = "RotateY"

\* The ray in the space of the mesh wrapped by Translate(RotateY(mesh)).
ObjectRay(m, ray) == RotateY_ray(m.object, Translate_ray(m, ray))

ChildHit(m) ==
    Mesh_hit(m.object.object, ObjectRay(m, query.ray), query.ray_t, query.rs).hit

RECURSIVE RadiiNonNegative(_)
\* No sphere of the mesh, at any nesting depth, has a negative radius.
RadiiNonNegative(m) ==
    CASE m.kind = "Sphere" -> QGe(m.radius, Zero)
      [] m.kind = "World" -> \A i \in 1..Len(m.meshes) : RadiiNonNegative(m.meshes[i])
      [] m.kind = "Cube" -> TRUE
      [] m.kind = "Quad" -> TRUE
      [] m.kind = "Bvh" -> RadiiNonNegative(m.left) /\ RadiiNonNegative(m.right)
      [] m.kind \in {"Translate", "RotateY"} -> RadiiNonNegative(m.object)
      [] m.kind = "ConstantMedium" -> RadiiNonNegative(m.boundary)
      [] OTHER -> TRUE

IsSphereCall == request.ctor \in {"Sphere::stationary", "Sphere::moving"}

\* C9: Sphere::stationary and Sphere::moving panic exactly when radius < 0; for
\* radius >= 0 they return a sphere of that radius, and no sphere with a
\* negative radius ever exists in the scene.
C9_SphereRadiusChecked ==
    /\ IsSphereCall =>
          /\ (built = Panic) = QLt(request.radius, Zero)
          /\ (built # Panic) => (built.kind = "Sphere" /\ built.radius = request.radius)
    /\ (phase = "panicked") = (built = Panic)
    /\ RadiiNonNegative(world)
    /\ RadiiNonNegative(bvh)

\* A negative radius was passed to each constructor and the call panicked; a
\* zero radius was accepted.
C9_Witness_NegativeRadiusPanics ==
    /\ request.ctor = "Sphere::moving"
    /\ QLt(request.radius, Zero)
    /\ built = Panic
    /\ phase = "panicked"
    /\ \E i \in 1..Len(world.meshes) :
          world.meshes[i].kind = "Sphere" /\ world.meshes[i].radius = Zero

(***************************************************************************)
(* Properties of the bounding boxes.                                       *)
(***************************************************************************)
Interval_within(inner, outer) == QLe(outer.start, inner.start) /\ QLe(inner.end, outer.end)

Aabb_within(inner, outer) ==
    /\ Interval_within(inner.x, outer.x)
    /\ Interval_within(inner.y, outer.y)
    /\ Interval_within(inner.z, outer.z)

\* C6: for all boxes A, B, C obtained from Aabb::default, Aabb::new,
\* Aabb::from_extremes and merge: merge(A,B) = merge(B,A),
\* merge(merge(A,B),C) = merge(A,merge(B,C)), and merge(A,B) contains A and B
\* on every axis.
C6_MergeLaws ==
    \A i \in 1..AabbRegisters, j \in 1..AabbRegisters, k \in 1..AabbRegisters :
        /\ Aabb_merge(boxes[i], boxes[j]) = Aabb_merge(boxes[j], boxes[i])
        /\ Aabb_merge(Aabb_merge(boxes[i], boxes[j]), boxes[k])
               = Aabb_merge(boxes[i], Aabb_merge(boxes[j], boxes[k]))
        /\ Aabb_within(boxes[i], Aabb_merge(boxes[i], boxes[j]))
        /\ Aabb_within(boxes[j], Aabb_merge(boxes[i], boxes[j]))

(***************************************************************************)
(* Properties of the camera.                                               *)
(***************************************************************************)
\* C3: in ray_color with depth > 0 and a hit, the value is
\* emitted + attenuation * ray_color(scattered, depth - 1) when the material
\* scatters and the material's emitted radiance when it does not.
C3_RayColorAddsEmitted ==
    \A i \in 1..Len(frames) :
        /\ frames[i].how = "scatter" =>
              frames[i].value = VAdd(Material_emitted(frames[i].material),
                                     VMul(frames[i].attenuation, frames[i].inner))
        /\ frames[i].how = "absorb" =>
              frames[i].value = Material_emitted(frames[i].material)

\* C4: ray_color returns black at depth <= 0 and recurses with depth - 1, so
\* a call started with max_depth = d makes at most d nested calls and at most
\* d world.hit queries along a path: depth falls by one with each query, and a
\* path that has used all d of them ends in the black of an exhausted depth.
C4_RayColorBounded ==
    /\ path.queries <= (IF config.max_depth > 0 THEN config.max_depth ELSE 0)
    /\ cphase = "tracing" =>
          /\ path.queries = Len(path.stack)
          /\ path.depth = config.max_depth - path.queries
    /\ \A i \in 1..Len(frames) :
          /\ frames[i].depth = config.max_depth - (i - 1)
          /\ (frames[i].depth <= 0) = (frames[i].how = "exhausted")
          /\ frames[i].how = "exhausted" => frames[i].value = VZERO

\* A path at the largest depth scattered at every hit and ended exhausted
\* after max_depth queries.
C4_Witness_DepthExhausted ==
    /\ cphase = "sampling"
    /\ config.max_depth = MaxDepth
    /\ path.queries = MaxDepth
    /\ Len(frames) = MaxDepth + 1
    /\ frames[1].how = "scatter"
    /\ frames[Len(frames)].how = "exhausted"

RECURSIVE HasEmitter(_)
\* Some mesh of the scene has a material whose emitted is not black.
HasEmitter(m) ==
    CASE m.kind = "World" -> \E i \in 1..Len(m.meshes) : HasEmitter(m.meshes[i])
      [] m.kind = "Bvh" -> HasEmitter(m.left) \/ HasEmitter(m.right)
      [] m.kind \in {"Quad", "Sphere"} -> Material_emitted(m.material) # VZERO
      [] OTHER -> FALSE

\* C5: a ray that hits nothing returns the background, which the scene
\* builders set to black; so over a scene without emitting material every
\* pixel render writes is (0,0,0), for every samples_per_pixel >= 1 and every
\* max_depth.
C5_BlackWithoutEmitters ==
    (~HasEmitter(scene) /\ config.samples_per_pixel >= 1) =>
        /\ \A i \in 1..Len(frames) : frames[i].how = "miss" => frames[i].value = VZERO
        /\ \A i \in 1..Len(output) :
              output[i].kind = "pixel" => output[i].value = <<0, 0, 0>>

\* C8: Camera::new on a configuration with samples_per_pixel = 0, width = 0 or
\* height = 0 panics: no Camera is produced and render never starts on it.
C8_CameraNewRejectsZero ==
    (config.samples_per_pixel = 0 \/ config.width = 0 \/ config.height = 0) =>
        /\ ~camera.made
        /\ cphase \notin {"ready", "sampling", "tracing", "done"}

\* The lines written to one stream, in order.
Written(stream) == SelectSeq(output, LAMBDA l : l.stream = stream)

\* The channels of a pixel line are integers in 0..255.
IsTriple(value) == Len(value) = 3 /\ \A c \in 1..3 : value[c] \in 0..255

\* C12: render writes to standard output the header P3, width height, 255 and
\* then the pixel triples in row-major order, each channel in 0..255, exactly
\* width*height of them when it is over; progress lines go to standard error
\* only, and Done is written after the last pixel.
C12_OutputOrder ==
    /\ cphase \in {"config", "ready"} => output = <<>>
    /\ cphase \in {"sampling", "tracing", "done"} =>
          /\ Len(Written("out")) >= 1
          /\ Written("out")[1].kind = "header"
          /\ Written("out")[1].value = <<config.width, config.height, 255>>
          /\ output[1] = Written("out")[1]
    /\ \A i \in 2..Len(Written("out")) :
          /\ Written("out")[i].kind = "pixel"
          /\ IsTriple(Written("out")[i].value)
          /\ Written("out")[i].x = (i - 2) % config.width
          /\ Written("out")[i].y = (i - 2) \div config.width
          /\ Written("out")[i].y < config.height
    /\ \A i \in 1..Len(Written("err")) : Written("err")[i].kind \in {"scanlines", "done"}
    /\ \A i \in 1..Len(output) : output[i].kind = "done" => i = Len(output)
    /\ (cphase = "done") = (output # <<>> /\ output[Len(output)].kind = "done")
    /\ cphase = "done" =>
          Len(Written("out")) = 1 + config.width * config.height

\* A render of the widest image is over: header, every pixel, then Done.
C12_Witness_FullImage ==
    /\ cphase = "done"
    /\ config.width = MaxWidth
    /\ config.height = MaxHeight
    /\ Len(Written("out")) = 1 + MaxWidth * MaxHeight
    /\ Len(Written("err")) = MaxHeight + 1
    /\ output[Len(output)].kind = "done"
    /\ output[Len(output) - 1].kind = "pixel"

Pixels == SelectSeq(output, LAMBDA l : l.kind = "pixel")

\* C11: two renders of the same scene with the same camera configuration
\* write the same pixels, pixel for pixel: the output is a function of scene,
\* camera and seed, and the program leaves the seed as it is between them.
C11_RendersAgree ==
    (cphase = "done" /\ Len(Pixels) = 2 * config.width * config.height) =>
        \A i \in 1..(config.width * config.height) :
            Pixels[i].value = Pixels[config.width * config.height + i].value

(***************************************************************************)
(* Properties of main.                                                     *)
(***************************************************************************)
\* C10: when ImageTexture::open fails in a scene builder, the builder and main
\* return that error, and main has not built its Bvh over the scene, created
\* the Camera, rendered a pixel or created the output file.  (The Bvh::from
\* calls inside final_scene, on parts of the scene, are counted apart in
\* builderBvhs.)
C10_LoadFailureAbortsRun ==
    /\ effects.openFailed =>
          /\ pc = "exit"
          /\ result = "Err(ImageTexture::open)"
          /\ ~effects.bvh
          /\ ~effects.camera
          /\ effects.pixels = 0
          /\ ~effects.file
          /\ ~effects.written
    /\ result = "Err(ImageTexture::open)" => effects.openFailed

\* The image of final_scene could not be read: main has exited with the
\* error after the builder's first Bvh::from and before anything else.
C10_Witness_FinalSceneLoadFails ==
    /\ builder = "final_scene"
    /\ image = "unreadable"
    /\ effects.openFailed
    /\ effects.builderBvhs = 1
    /\ pc = "exit"
    /\ result = "Err(ImageTexture::open)"

(***************************************************************************)
(* Properties of single calls.                                             *)
(***************************************************************************)
Extent(box, n) == Interval_size(Aabb_index(box, n))

\* The axes of the box whose extent no other axis exceeds.
LongestAxes(box) == {n \in 0..2 : \A m \in 0..2 : QGe(Extent(box, n), Extent(box, m))}

\* C15 as stated: Aabb::longest_axis returns an axis of greatest extent, and
\* the lowest index among the axes that tie for it.
C15_LongestAxisLowestOnTie ==
    call.fn = "Aabb::longest_axis" =>
        /\ call.result \in LongestAxes(call.box)
        /\ \A n \in LongestAxes(call.box) : call.result <= n

\* C15 as amended: Aabb::longest_axis returns an axis of greatest extent, and
\* the highest index among the axes that tie for it (z before y before x).
C15_LongestAxisHighestOnTie ==
    call.fn = "Aabb::longest_axis" =>
        /\ call.result \in LongestAxes(call.box)
        /\ \A n \in LongestAxes(call.box) : call.result >= n

\* x and y tie for the greatest extent and y is returned.
C15_Witness_TieReturnsY ==
    /\ call.fn = "Aabb::longest_axis"
    /\ LongestAxes(call.box) = {0, 1}
    /\ call.result = 1

\* C13: a ConstantMedium constructed with density 0 returns no hit, whatever
\* the ray and the query interval, also when the ray crosses the boundary twice
\* inside the interval.
C13_ZeroDensityNeverHits ==
    (call.fn = "ConstantMedium::hit" /\ call.density = Zero) => ~call.result.some

\* A medium of density 0 was asked about a ray that enters and leaves its
\* boundary inside the query interval, and returned no hit.
C13_Witness_CrossesTwice ==
    /\ call.fn = "ConstantMedium::hit"
    /\ call.density = Zero
    /\ call.entry.some
    /\ call.exit.some
    /\ Interval_contains(call.ray_t, call.entry.distance)
    /\ Interval_contains(call.ray_t, call.exit.distance)
    /\ ~call.result.some

RECURSIVE LeavesOf(_)
\* The meshes at the leaf positions of a Bvh, left to right; a node whose
\* children are one and the same leaf counts it once.
LeavesOf(node) ==
    IF node.kind # "Bvh" THEN <<node>>
    ELSE IF node.left = node.right THEN LeavesOf(node.left)
    ELSE LeavesOf(node.left) \o LeavesOf(node.right)

RECURSIVE UnionInterval(_, _, _)
\* The union of the meshes' intervals on one axis: least start, greatest end.
UnionInterval(list, axis, i) ==
    IF i = Len(list) THEN Aabb_index(bounding_box(list[i]), axis)
    ELSE Interval_join(Aabb_index(bounding_box(list[i]), axis), UnionInterval(list, axis, i + 1))

UnionBox(list) ==
    Aabb(UnionInterval(list, 0, 1), UnionInterval(list, 1, 1), UnionInterval(list, 2, 1))

StartOn(mesh, axis) == Aabb_index(bounding_box(mesh), axis).start

Range(seq) == {seq[i] : i \in 1..Len(seq)}

\* C16: Bvh::from over n meshes: for n = 1 both children are the one mesh; for
\* n = 2 they are the two meshes in input order; for n >= 3 the first
\* floor(n/2) meshes in the order of their starts on the longest axis of the
\* union of the meshes' boxes go left and the rest right, so every start on the
\* left is <= every start on the right on that axis, and every mesh is at
\* exactly one leaf position.
C16_BvhSplit ==
    call.fn = "Bvh::from" =>
        /\ Len(call.value) = 1 =>
              call.result.left = call.value[1] /\ call.result.right = call.value[1]
        /\ Len(call.value) = 2 =>
              call.result.left = call.value[1] /\ call.result.right = call.value[2]
        /\ Len(call.value) >= 3 =>
              /\ Len(LeavesOf(call.result.left)) = Len(call.value) \div 2
              /\ Len(LeavesOf(call.result.right)) = Len(call.value) - Len(call.value) \div 2
              /\ \A l \in Range(LeavesOf(call.result.left)),
                    r \in Range(LeavesOf(call.result.right)) :
                    QLe(StartOn(l, Aabb_longest_axis(UnionBox(call.value))),
                        StartOn(r, Aabb_longest_axis(UnionBox(call.value))))
        /\ Range(LeavesOf(call.result)) = Range(call.value)
        /\ Len(LeavesOf(call.result)) = Len(call.value)

\* The answer of the right child of the node of a Bvh::hit call to the ray of
\* the call within ray_t, after the left child's draws.
RightProbe(ray_t) == Mesh_hit(call.node.right, call.ray, ray_t, call.left.rs)

\* C17: Bvh::hit returns None without probing a child when the ray misses the
\* node's box within ray_t; otherwise it probes the left child first with
\* ray_t; after a left hit at distance d it probes the right child with
\* [ray_t.start, d) and returns the right hit, which is strictly closer than
\* d, or the left hit when the right child misses; after a left miss it
\* returns the right child's answer to the unchanged ray_t.
C17_BvhHitOrder ==
    call.fn = "Bvh::hit" =>
        /\ ~call.box => ~call.result.hit.some /\ call.result.rs = call.rs
        /\ call.box /\ call.left.hit.some =>
              /\ call.result.rs = RightProbe(Interval(call.ray_t.start, call.left.hit.distance)).rs
              /\ RightProbe(Interval(call.ray_t.start, call.left.hit.distance)).hit.some =>
                    /\ call.result.hit =
                          RightProbe(Interval(call.ray_t.start, call.left.hit.distance)).hit
                    /\ QLt(call.result.hit.distance, call.left.hit.distance)
              /\ ~RightProbe(Interval(call.ray_t.start, call.left.hit.distance)).hit.some =>
                    call.result.hit = call.left.hit
        /\ call.box /\ ~call.left.hit.some => call.result = RightProbe(call.ray_t)

\* The answer of member i of the World of a World::hit call, asked alone with
\* the ray and ray_t of the call.
Own(i) == Mesh_hit(call.members[i], call.ray, call.ray_t, call.rs).hit

\* C18: World::hit returns the hit of smallest distance among its members'
\* hits within ray_t, whatever the order of the members; it returns None
\* exactly when no member is hit; of two members hit at the same distance the
\* one pushed first is returned.
C18_WorldHitNearest ==
    call.fn = "World::hit" =>
        /\ call.result.some <=> \E i \in 1..Len(call.members) : Own(i).some
        /\ call.result.some =>
              \E i \in 1..Len(call.members) :
                  /\ Own(i).some
                  /\ call.result = Own(i)
                  /\ \A j \in 1..Len(call.members) :
                        Own(j).some =>
                            \/ QLt(Own(i).distance, Own(j).distance)
                            \/ Own(i).distance = Own(j).distance /\ i <= j
        /\ call.reversed.some <=> call.result.some
        /\ call.result.some => call.reversed.distance = call.result.distance

\* The parameters at which the ray of the call crosses the two planes of the
\* box of the call on axis n.
Crossings(n) ==
    {QDiv(QSub(Aabb_index(call.box, n).start, call.ray.origin[n + 1]), call.ray.direction[n + 1]),
     QDiv(QSub(Aabb_index(call.box, n).end, call.ray.origin[n + 1]), call.ray.direction[n + 1])}

\* The intersection of ray_t with the slab ranges of axes 0..n: the greatest
\* of the starts and the least of the ends.
SlabStarts(n) ==
    {call.ray_t.start} \cup {t \in UNION {Crossings(m) : m \in 0..n} :
                                \E m \in 0..n : t \in Crossings(m) /\ \A u \in Crossings(m) : QLe(t, u)}
SlabEnds(n) ==
    {call.ray_t.end} \cup {t \in UNION {Crossings(m) : m \in 0..n} :
                              \E m \in 0..n : t \in Crossings(m) /\ \A u \in Crossings(m) : QGe(t, u)}
SlabsOverlap(n) ==
    \E s \in SlabStarts(n), e \in SlabEnds(n) :
        /\ \A t \in SlabStarts(n) : QGe(s, t)
        /\ \A t \in SlabEnds(n) : QLe(e, t)
        /\ QGt(e, s)

\* C19: for a ray with no zero direction component, Aabb::hit is true exactly
\* when the intersection of ray_t with the three slab ranges has end > start,
\* it is false as soon as the intersection up to some axis has end <= start,
\* and the caller's ray_t is as it was.
C19_AabbHitSlabs ==
    (call.fn = "Aabb::hit" /\ \A n \in 1..3 : call.ray.direction[n] # Zero) =>
        /\ call.result <=> SlabsOverlap(2)
        /\ (\E n \in 0..2 : ~SlabsOverlap(n)) => ~call.result
        /\ call.caller = call.ray_t

C19_Witness_HitAgainstAxes ==
    /\ call.fn = "Aabb::hit"
    /\ \A n \in 1..3 : QLt(call.ray.direction[n], Zero)
    /\ call.result
    /\ call.ray_t.start # Zero

\* C20: every Aabb obtained through the public API (Aabb::default, Aabb::new,
\* Aabb::from_extremes, merge, the bounding_box of a mesh or of an empty
\* World) has an interval of size at least 0.0001 on each of its three axes.
C20_MinimumThickness ==
    \A i \in 1..AabbRegisters, n \in 0..2 :
        QGe(Interval_size(Aabb_index(boxes[i], n)), Q(1, 10000))

\* C21: the front_face flag of the hit is true exactly when
\* dot(ray.direction, outward normal) < 0; Dielectric::scatter uses the
\* relative index 1/refraction_index on a front-face hit and refraction_index
\* on a back-face hit, and always returns a scatter with white attenuation.
C21_DielectricFaces ==
    call.fn = "Dielectric::scatter" =>
        /\ call.hit.front_face <=> QLt(Dot(call.ray.direction, call.outward), Zero)
        /\ call.ri = IF QLt(Dot(call.ray.direction, call.outward), Zero)
                     THEN QDiv(One, call.refraction_index)
                     ELSE call.refraction_index
        /\ call.result.some
        /\ call.result.attenuation = V(1, 1, 1)

\* The jittered sample point of pixel (x, y) of a get_ray call on the focus
\* plane.
PixelSample ==
    VAdd(VAdd(call.camera.pixel00_loc,
              VScale(call.camera.pixel_delta_u, QAdd(I(call.x), call.offset[1]))),
         VScale(call.camera.pixel_delta_v, QAdd(I(call.y), call.offset[2])))

\* C22: get_ray's origin is the camera center when defocus_angle <= 0 and the
\* sampled point of the defocus disk when defocus_angle > 0, its direction is
\* the pixel sample minus that origin, so origin + direction is the jittered
\* pixel sample, and the jitter lies in [-0.5, 0.5) on both pixel axes.
C22_GetRayOrigin ==
    call.fn = "Camera::get_ray" =>
        /\ call.camera.config.defocus_angle <= 0 => call.result.origin = call.camera.center
        /\ call.camera.config.defocus_angle > 0 =>
              /\ call.result.origin = call.disk
              /\ call.result.direction = VSub(PixelSample, call.result.origin)
        /\ VAdd(call.result.origin, call.result.direction) = PixelSample
        /\ \A n \in 1..2 : QLe(Q(-1, 2), call.offset[n]) /\ QLt(call.offset[n], Q(1, 2))

\* Of a ConstantMedium::hit call: the entry distance clamped up to
\* ray_t.start, the exit distance clamped down to ray_t.end, the entry raised
\* to 0, and the sampled free path -1/density * ln(random).
ClampedEntry ==
    IF QLt(call.entry.distance, call.ray_t.start) THEN call.ray_t.start ELSE call.entry.distance
ClampedExit ==
    IF QGt(call.exit.distance, call.ray_t.end) THEN call.ray_t.end ELSE call.exit.distance
RaisedEntry == IF QLt(ClampedEntry, Zero) THEN Zero ELSE ClampedEntry
FreePath == QMul(QDiv(I(-1), call.density), call.draw)

\* The statement of C23 about a call, with the distance inside the boundary
\* and the hit measured from the entry distance `from`.
MediumHitFrom(from) ==
    /\ call.result.some <=>
          /\ call.entry.some
          /\ call.exit.some
          /\ ~QGe(ClampedEntry, ClampedExit)
          /\ ~QGt(FreePath, QMul(QSub(ClampedExit, from), Length(call.ray.direction)))
    /\ call.result.some =>
          /\ call.result.distance = QAdd(from, QDiv(FreePath, Length(call.ray.direction)))
          /\ call.result.point = Ray_get_point(call.ray, call.result.distance)
          /\ call.result.material = Isotropic(call.albedo)

\* C23: ConstantMedium::hit returns no hit when the boundary is crossed fewer
\* than twice, when entry >= exit after clamping the entry up to ray_t.start
\* and the exit down to ray_t.end, or when the free path is longer than the
\* clamped distance inside the boundary; otherwise it returns a hit at
\* entry + free_path/|direction| with the medium's Isotropic material.
C23_MediumHit ==
    call.fn = "ConstantMedium::hit" => MediumHitFrom(ClampedEntry)

\* C23 as amended: the same, with the clamped entry raised to 0 when it is
\* negative before the distance inside the boundary and the hit are computed.
C23_MediumHitFromZero ==
    call.fn = "ConstantMedium::hit" => MediumHitFrom(RaisedEntry)

\* A ray that starts inside the boundary was asked about with an interval that
\* starts below 0, and the medium returned a hit.
C23_Witness_EntryBehindOrigin ==
    /\ call.fn = "ConstantMedium::hit"
    /\ call.result.some
    /\ QLt(call.entry.distance, Zero)
    /\ QLt(call.ray_t.start, Zero)

\* Of a Sphere::hit call: the center at the ray's time, the vector from the
\* ray's origin to it, the discriminant of |origin + t * direction - center|^2
\* = radius^2, and its two roots.
CenterAtTime == VAdd(call.from, VScale(VSub(call.to, call.from), call.ray.time))
ToCenter == VSub(CenterAtTime, call.ray.origin)
Discriminant ==
    QSub(QMul(Dot(call.ray.direction, ToCenter), Dot(call.ray.direction, ToCenter)),
         QMul(LengthSquared(call.ray.direction),
              QSub(LengthSquared(ToCenter), QMul(call.radius, call.radius))))
SmallerRoot ==
    QDiv(QSub(Dot(call.ray.direction, ToCenter), QSqrt(Discriminant)),
         LengthSquared(call.ray.direction))
LargerRoot ==
    QDiv(QAdd(Dot(call.ray.direction, ToCenter), QSqrt(Discriminant)),
         LengthSquared(call.ray.direction))

\* The hit of a Sphere::hit call is at distance t on the sphere around the
\* center at the ray's time.
SphereHitAt(t) ==
    /\ call.result.some
    /\ call.result.distance = t
    /\ call.result.point = Ray_get_point(call.ray, t)
    /\ LengthSquared(VSub(call.result.point, CenterAtTime)) = QMul(call.radius, call.radius)

\* C24: Sphere::hit returns no hit when the discriminant is negative;
\* otherwise the smaller root if it lies in [start, end), else the larger root
\* if that lies in the interval, else no hit; the center of a moving sphere is
\* initial + (to - initial) * ray.time.
C24_SphereRoots ==
    call.fn = "Sphere::hit" =>
        IF QLt(Discriminant, Zero) THEN ~call.result.some
        ELSE IF Interval_contains(call.ray_t, SmallerRoot) THEN SphereHitAt(SmallerRoot)
        ELSE IF Interval_contains(call.ray_t, LargerRoot) THEN SphereHitAt(LargerRoot)
        ELSE ~call.result.some

\* A moving sphere was hit at the larger root by a ray of time 1 whose smaller
\* root lies before the interval.
C24_Witness_MovingLargerRoot ==
    /\ call.fn = "Sphere::hit"
    /\ call.from # call.to
    /\ call.ray.time = One
    /\ call.result.some
    /\ ~Interval_contains(call.ray_t, SmallerRoot)
    /\ call.result.distance = LargerRoot

\* C25: the bounding box of a World after its pushes and of the Bvh built from
\* its meshes is the per-axis union of the members' boxes: the least start and
\* the greatest end on each axis, and nothing more.
C25_BoxIsUnion ==
    call.fn = "Bvh::from" =>
        /\ bounding_box(call.world) = UnionBox(call.value)
        /\ bounding_box(call.result) = UnionBox(call.value)

\* C26: every hit a mesh returns from hit(ray, ray_t) has its distance in the
\* half-open query interval: ray_t.start <= distance < ray_t.end; this holds
\* of a ConstantMedium too.
C26_HitInsideInterval ==
    (call.fn \in {"Sphere::hit", "World::hit", "ConstantMedium::hit"} /\ call.result.some) =>
        Interval_contains(call.ray_t, call.result.distance)

\* C27: Bvh::from returns for every list of n >= 0 meshes: its stack never
\* overflows and holds at most n activations (one for n = 0), and both slices
\* an activation over three or more meshes recurses into are non-empty and
\* shorter than its own.
C27_BvhFromTerminates ==
    call.fn = "Bvh::from, running" =>
        /\ call.status # "stack overflow"
        /\ Len(call.stack) <= IF Len(call.value) = 0 THEN 1 ELSE Len(call.value)
        /\ \A i \in 2..Len(call.stack) :
              Len(call.stack[i - 1].value) >= 3 =>
                  /\ Len(call.stack[i].value) >= 1
                  /\ Len(call.stack[i].value) < Len(call.stack[i - 1].value)

\* C28: a Bvh node over a single mesh answers a query with the outcome of one
\* query of that mesh: the same hit or miss, and a randomised leaf has drawn
\* once, as when it is asked directly.
C28_SingleLeafOnce ==
    call.fn = "Bvh::hit, one leaf" =>
        /\ call.result.hit = call.direct.hit
        /\ call.result.rs = call.direct.rs

====
